---- MODULE Spec2Model ----
(***************************************************************************)
(* Odoo -> Shopify inventory connector: the snapshot store, the change     *)
(* detector, the Shopify executor and the three sync modes of SyncService. *)
(*                                                                         *)
(* Quantities of the source (OdooStockQuant.quantity, a float >= 0) are    *)
(* counted in half units, so that 3 stands for 1.5; ToInt is Python's      *)
(* int() on them.  Snapshot and Shopify quantities are integers.           *)
(* A dict is a sequence of records with pairwise distinct sku, in          *)
(* insertion order, as a Python dict iterates.                             *)
(***************************************************************************)
EXTENDS Integers, Sequences, FiniteSets, TLC

\* ------------------------------------------------------------ bounds
SKUS == {"A", "B"}
\* longest record list the source fetch returns
MaxLen == 2
\* largest source quantity, in half units
MaxHalf == 3
\* largest per-call item limit the runs are checked with, in place of the 250
\* of ShopifyService.MAX_BATCH_SIZE
MaxBatch == 2
\* faults the environment injects into one operation
MaxFaults == 1
\* operations in one behaviour of Spec, and of SpecTwice
MaxOps == 1
MaxRuns == 2

\* ------------------------------------------------------------ data
ToInt(h) == h \div 2

HalfQ == 1..MaxHalf
IntQ == 0..ToInt(MaxHalf)

\* OdooStockQuant, the fields the engine reads
StockQuant(s, h) == [sku |-> s, quantity |-> h]
Records == {StockQuant(s, h) : s \in SKUS, h \in HalfQ}
AllLists == UNION {[1..n -> Records] : n \in 0..MaxLen}

\* SnapshotProduct, the fields the engine reads
SnapshotProduct(s, q) == [sku |-> s, quantity |-> q]

Keys(d) == {d[i].sku : i \in 1..Len(d)}
Get(d, k) == d[CHOOSE i \in 1..Len(d) : d[i].sku = k]
DictSet(d, rec) ==
    IF rec.sku \in Keys(d)
    THEN [i \in 1..Len(d) |-> IF d[i].sku = rec.sku THEN rec ELSE d[i]]
    ELSE Append(d, rec)

\* {p.sku: p for p in products}: first occurrence fixes the place, the
\* last occurrence the value
RECURSIVE DictOf(_)
DictOf(list) ==
    IF list = <<>> THEN <<>>
    ELSE DictSet(DictOf(SubSeq(list, 1, Len(list) - 1)), list[Len(list)])

IsDict(d) == \A i, j \in 1..Len(d) : d[i].sku = d[j].sku => i = j
AllDicts == {d \in UNION {[1..n -> {SnapshotProduct(s, q) : s \in SKUS, q \in IntQ}] :
                          n \in 0..Cardinality(SKUS)} : IsDict(d)}

\* ------------------------------------------------------------ snapshot file
\* What last_sync_snapshot.json holds, by what load_snapshot makes of it.
SnapFile(k, t, p, prods, n, ok) ==
    [kind |-> k, ts |-> t, ptype |-> p, products |-> prods,
     total_products |-> n, fields_ok |-> ok]

NoFile == SnapFile("missing", "iso", "map", <<>>, 0, TRUE)
ValidFile(prods, n) == SnapFile("object", "iso", "map", prods, n, TRUE)

\* SyncSnapshot | None
None == [present |-> FALSE, products |-> <<>>, total_products |-> 0]
SyncSnapshot(prods, n) == [present |-> TRUE, products |-> prods, total_products |-> n]

Returned(s) == [kind |-> "returned", snapshot |-> s]
Raised(exc) == [kind |-> "raised", exc |-> exc]

load_snapshot(f) ==
    IF f.kind = "missing" THEN Returned(None)
    ELSE IF f.kind = "unreadable" THEN Raised("OSError")
    ELSE IF f.kind = "truncated" THEN Returned(None)
    ELSE IF f.kind = "nonobject" THEN Raised("TypeError")
    ELSE IF f.ts = "missing" THEN Returned(None)
    ELSE IF f.ts = "nonstr" THEN Raised("TypeError")
    ELSE IF f.ts = "bad" THEN Returned(None)
    ELSE IF f.ptype = "missing" THEN Returned(None)
    ELSE IF f.ptype = "nonmap" THEN Raised("AttributeError")
    ELSE IF ~f.fields_ok THEN Returned(None)
    ELSE Returned(SyncSnapshot(f.products, f.total_products))

\* ------------------------------------------------------------ change detector
ChangeDetectionResult(n, m, d, u, t) ==
    [new_products |-> n, modified_products |-> m, deleted_skus |-> d,
     unchanged_products |-> u, total_changes |-> t]

\* first_sync_changes, had it counted each SKU once
first_sync_changes_distinct(current_products) ==
    ChangeDetectionResult(DictOf(current_products), <<>>, <<>>, 0,
                          Len(DictOf(current_products)))

\* a first synchronisation: if not snapshot
first_sync_changes(current_products) ==
    ChangeDetectionResult(current_products, <<>>, <<>>, 0, Len(current_products))

\* classify, had it compared the quantity as fetched, without int()
classify_untruncated(current, snapshot_map) ==
    IF current.sku \notin Keys(snapshot_map) THEN "new"
    ELSE IF current.quantity # Get(snapshot_map, current.sku).quantity
    THEN "modified"
    ELSE "unchanged"

\* the branch one SKU of current_map takes
classify(current, snapshot_map) ==
    IF current.sku \notin Keys(snapshot_map) THEN "new"
    ELSE IF ToInt(current.quantity) # Get(snapshot_map, current.sku).quantity
    THEN "modified"
    ELSE "unchanged"

compare_with_current(current_products, snapshot) ==
    IF ~snapshot.present
    THEN first_sync_changes(current_products)
    ELSE LET current_map == DictOf(current_products)
             snapshot_map == snapshot.products
             IsNew(p) == classify(p, snapshot_map) = "new"
             IsModified(p) == classify(p, snapshot_map) = "modified"
             IsSame(p) == classify(p, snapshot_map) = "unchanged"
             IsDeleted(e) == e.sku \notin Keys(current_map)
             new_products == SelectSeq(current_map, IsNew)
             modified_products == SelectSeq(current_map, IsModified)
             unchanged == Len(SelectSeq(current_map, IsSame))
             deleted == SelectSeq(snapshot_map, IsDeleted)
             deleted_skus == [i \in 1..Len(deleted) |-> deleted[i].sku]
         IN ChangeDetectionResult(new_products, modified_products, deleted_skus, unchanged,
                Len(new_products) + Len(modified_products) + Len(deleted_skus))

\* ------------------------------------------------------------ snapshot store
\* snapshot_products, had it stored the quantity as fetched, without int()
snapshot_products_untruncated(products) ==
    DictOf([i \in 1..Len(products) |->
              SnapshotProduct(products[i].sku, products[i].quantity)])

\* the mapping save_snapshot builds: int(quantity) per record, keyed by SKU
snapshot_products(products) ==
    DictOf([i \in 1..Len(products) |->
              SnapshotProduct(products[i].sku, ToInt(products[i].quantity))])

MAX_BACKUPS == 3

\* create_backup, had it never unlinked an old backup
create_backup_unpruned(f, bks, copyOk) ==
    IF f.kind = "missing" THEN bks
    ELSE IF ~copyOk \/ f.kind = "unreadable" THEN bks
    ELSE Append(bks, f)

\* create_backup: a copy of the existing file joins the timestamped backups,
\* the oldest beyond MAX_BACKUPS are unlinked.  A failing copy is logged and
\* swallowed (the method returns False, which no caller reads).
create_backup(f, bks, copyOk) ==
    IF f.kind = "missing" THEN bks
    ELSE IF ~copyOk \/ f.kind = "unreadable" THEN bks
    ELSE LET all == Append(bks, f)
         IN IF Len(all) > MAX_BACKUPS
            THEN SubSeq(all, Len(all) - MAX_BACKUPS + 1, Len(all))
            ELSE all

\* whether create_backup adds a copy
backup_copied(f, copyOk) == f.kind \notin {"missing", "unreadable"} /\ copyOk

\* How the write of save_snapshot ends: "ok"; open(..., 'w') raises (the file
\* is as before); json.dump raises after open truncated the file; chmod raises
\* after the file was written.
WriteOutcomes == {"ok", "open_fails", "dump_fails", "chmod_fails"}

save_snapshot(f, bks, products, copyOk, wr) ==
    LET bks2 == create_backup(f, bks, copyOk)
        written == ValidFile(snapshot_products(products), Len(products))
    IN CASE wr = "ok" -> [ok |-> TRUE, file |-> written, backups |-> bks2]
         [] wr = "open_fails" -> [ok |-> FALSE, file |-> f, backups |-> bks2]
         [] wr = "dump_fails" ->
                [ok |-> FALSE, file |-> SnapFile("truncated", "iso", "map", <<>>, 0, TRUE),
                 backups |-> bks2]
         [] OTHER -> [ok |-> FALSE, file |-> written, backups |-> bks2]

\* reset_snapshot: nothing to do without a file; else a backup, whose failure
\* is swallowed by create_backup, then unlink, whose failure returns False.
reset_snapshot(f, bks, copyOk, unlinkOk) ==
    IF f.kind = "missing" THEN [ok |-> TRUE, file |-> f, backups |-> bks]
    ELSE IF unlinkOk
    THEN [ok |-> TRUE, file |-> NoFile, backups |-> create_backup(f, bks, copyOk)]
    ELSE [ok |-> FALSE, file |-> f, backups |-> create_backup(f, bks, copyOk)]

\* ------------------------------------------------------------ Shopify executor
\* The downstream double: per SKU whether a variant exists, and its
\* available quantity at the shared location.
Variant(f, q) == [found |-> f, qty |-> q]
AllShops == [SKUS -> {Variant(FALSE, 0)} \cup {Variant(TRUE, q) : q \in IntQ}]

\* One downstream exchange of a run.  res: "ok" | "none" (no variant) | "error".
\* items: what bulk_adjust_inventory was given; sent: what went on the wire.
Call(o, s, its, snt, r) == [op |-> o, sku |-> s, items |-> its, sent |-> snt, res |-> r]
LocationCall(r) == Call("location", "", <<>>, <<>>, r)
LookupCall(s, r) == Call("lookup", s, <<>>, <<>>, r)

\* BulkInventoryAdjustment; desired is kept beside the delta to say what the
\* adjustment tells the downstream system
Adjustment(s, d, want) == [sku |-> s, available_delta |-> d, desired |-> want]

\* SyncResult
SyncResult(ok, s, hasd, d) == [success |-> ok, sku |-> s, has_delta |-> hasd, delta |-> d]
Failure(s) == SyncResult(FALSE, s, FALSE, 0)

\* compute_delta, had the delta been the source quantity itself
compute_delta_absolute(new_quantity, current_quantity) == new_quantity

\* new_quantity - variant_data.current_quantity
compute_delta(new_quantity, current_quantity) == new_quantity - current_quantity

\* prepare_adjustments, had the first failed lookup ended the loop
RECURSIVE prepare_adjustments_abort(_, _, _, _)
prepare_adjustments_abort(products, errAt, sh, i) ==
    IF i = 0
    THEN [adjustments |-> <<>>, results |-> <<>>, skipped |-> 0, calls |-> <<>>]
    ELSE LET r == prepare_adjustments_abort(products, errAt, sh, i - 1)
             p == products[i]
         IN IF r.skipped > 0 THEN r
            ELSE IF i \in errAt
            THEN [r EXCEPT !.results = Append(@, Failure(p.sku)), !.skipped = @ + 1,
                           !.calls = Append(@, LookupCall(p.sku, "error"))]
            ELSE IF ~sh[p.sku].found
            THEN [r EXCEPT !.results = Append(@, Failure(p.sku)), !.skipped = @ + 1,
                           !.calls = Append(@, LookupCall(p.sku, "none"))]
            ELSE [r EXCEPT !.adjustments =
                               Append(@, Adjustment(p.sku,
                                   compute_delta(ToInt(p.quantity), sh[p.sku].qty),
                                   ToInt(p.quantity))),
                           !.calls = Append(@, LookupCall(p.sku, "ok"))]

\* The preparation loop of the batched modes over products[1..i]: one lookup
\* per record; a lookup that raises (i \in errAt) or finds no variant adds a
\* failed result and counts as skipped, anything else adds an adjustment.
RECURSIVE prepare_adjustments(_, _, _, _)
prepare_adjustments(products, errAt, sh, i) ==
    IF i = 0
    THEN [adjustments |-> <<>>, results |-> <<>>, skipped |-> 0, calls |-> <<>>]
    ELSE LET r == prepare_adjustments(products, errAt, sh, i - 1)
             p == products[i]
         IN IF i \in errAt
            THEN [r EXCEPT !.results = Append(@, Failure(p.sku)), !.skipped = @ + 1,
                           !.calls = Append(@, LookupCall(p.sku, "error"))]
            ELSE IF ~sh[p.sku].found
            THEN [r EXCEPT !.results = Append(@, Failure(p.sku)), !.skipped = @ + 1,
                           !.calls = Append(@, LookupCall(p.sku, "none"))]
            ELSE [r EXCEPT !.adjustments =
                               Append(@, Adjustment(p.sku,
                                   compute_delta(ToInt(p.quantity), sh[p.sku].qty),
                                   ToInt(p.quantity))),
                           !.calls = Append(@, LookupCall(p.sku, "ok"))]

Min(a, b) == IF a < b THEN a ELSE b

\* create_batches, had it made only the full batches
create_batches_full(adjustments, batch_size) ==
    [k \in 1..(Len(adjustments) \div batch_size) |->
        SubSeq(adjustments, (k - 1) * batch_size + 1, k * batch_size)]

create_batches(adjustments, batch_size) ==
    [k \in 1..((Len(adjustments) + batch_size - 1) \div batch_size) |->
        SubSeq(adjustments, (k - 1) * batch_size + 1,
               Min(k * batch_size, Len(adjustments)))]

\* How the bulk mutation ends: "ok"; "api_error" (ShopifyGraphQLError or
\* RateLimitExceeded out of _run_query, turned into a failed result, as is an
\* answer of userErrors and no inventoryLevels); "exception"
\* (anything else, which leaves bulk_adjust_inventory).
BulkOutcomes == {"ok", "api_error", "exception"}

BulkUpdateResult(ok, upd, fld) == [success |-> ok, items_updated |-> upd, items_failed |-> fld]

\* nonzero, had it let every adjustment through
nonzero_any(adj) == adj.available_delta = adj.available_delta

nonzero(adj) == adj.available_delta # 0

\* bulk_adjust_inventory, had it cut a long list down to the limit
bulk_adjust_inventory_truncating(adjustments, outcome, limit) ==
    LET kept == SubSeq(adjustments, 1, Min(Len(adjustments), limit))
        filtered_adjustments == SelectSeq(kept, nonzero)
    IN IF filtered_adjustments = <<>>
       THEN [raised |-> FALSE, result |-> BulkUpdateResult(TRUE, 0, 0), sent |-> <<>>,
             res |-> "nocall"]
       ELSE CASE outcome = "ok" ->
                   [raised |-> FALSE,
                    result |-> BulkUpdateResult(TRUE, Len(filtered_adjustments), 0),
                    sent |-> filtered_adjustments, res |-> "ok"]
              [] outcome = "api_error" ->
                   [raised |-> FALSE,
                    result |-> BulkUpdateResult(FALSE, 0, Len(filtered_adjustments)),
                    sent |-> filtered_adjustments, res |-> "error"]
              [] OTHER ->
                   [raised |-> TRUE, result |-> BulkUpdateResult(FALSE, 0, 0),
                    sent |-> filtered_adjustments, res |-> "error"]

bulk_adjust_inventory(adjustments, outcome, limit) ==
    LET filtered_adjustments == SelectSeq(adjustments, nonzero)
    IN IF Len(adjustments) > limit
       THEN [raised |-> TRUE, result |-> BulkUpdateResult(FALSE, 0, 0), sent |-> <<>>,
             res |-> "rejected"]
       ELSE IF adjustments = <<>> \/ filtered_adjustments = <<>>
       THEN [raised |-> FALSE, result |-> BulkUpdateResult(TRUE, 0, 0), sent |-> <<>>,
             res |-> "nocall"]
       ELSE CASE outcome = "ok" ->
                   [raised |-> FALSE,
                    result |-> BulkUpdateResult(TRUE, Len(filtered_adjustments), 0),
                    sent |-> filtered_adjustments, res |-> "ok"]
              [] outcome = "api_error" ->
                   [raised |-> FALSE,
                    result |-> BulkUpdateResult(FALSE, 0, Len(filtered_adjustments)),
                    sent |-> filtered_adjustments, res |-> "error"]
              [] OTHER ->
                   [raised |-> TRUE, result |-> BulkUpdateResult(FALSE, 0, 0),
                    sent |-> filtered_adjustments, res |-> "error"]

\* the downstream double applies the deltas of one mutation, one after another
RECURSIVE apply_deltas(_, _)
apply_deltas(sh, items) ==
    IF items = <<>> THEN sh
    ELSE LET a == items[1]
         IN apply_deltas([sh EXCEPT ![a.sku].qty = @ + a.available_delta], Tail(items))

RECURSIVE tell_all(_, _)
tell_all(t, items) ==
    IF items = <<>> THEN t
    ELSE tell_all([t EXCEPT ![items[1].sku] = [known |-> TRUE, qty |-> items[1].desired]],
                  Tail(items))

batch_results(batch, ok) ==
    [i \in 1..Len(batch) |->
        IF ok THEN SyncResult(TRUE, batch[i].sku, TRUE, batch[i].available_delta)
        ELSE Failure(batch[i].sku)]

\* The dispatch loop of the batched modes over batches[1..k], batch k ending
\* as outs[k] says.
RECURSIVE dispatch_batches(_, _, _, _, _, _)
dispatch_batches(batches, outs, limit, sh, t, k) ==
    IF k = 0
    THEN [successful |-> 0, failed |-> 0, results |-> <<>>, calls |-> <<>>,
          shop |-> sh, told |-> t]
    ELSE LET r == dispatch_batches(batches, outs, limit, sh, t, k - 1)
             batch == batches[k]
             b == bulk_adjust_inventory(batch, outs[k], limit)
             applied == IF b.res = "ok" THEN b.sent ELSE <<>>
             call == Call("bulk", "", batch, b.sent, b.res)
         IN IF b.raised
            THEN [r EXCEPT !.failed = @ + Len(batch),
                           !.results = @ \o batch_results(batch, FALSE),
                           !.calls = Append(@, call)]
            ELSE [successful |-> r.successful + b.result.items_updated,
                  failed |-> r.failed + b.result.items_failed,
                  results |-> r.results \o batch_results(batch, b.result.success),
                  calls |-> Append(r.calls, call),
                  shop |-> apply_deltas(r.shop, applied),
                  told |-> IF b.result.success THEN tell_all(r.told, batch) ELSE r.told]

\* ------------------------------------------------------------ environment
\* What can go wrong in one operation: the source fetch, the location query,
\* the lookup of the i-th record, the adjust mutation of the i-th record, the
\* k-th bulk mutation (an API error, or any other exception), and the steps of
\* save_snapshot (backup copy, open, json.dump, chmod) and of reset_snapshot
\* (backup copy, unlink).
Fault(k, i) == [kind |-> k, at |-> i]
Positions == 1..(IF MaxLen > Cardinality(SKUS) THEN MaxLen ELSE Cardinality(SKUS))
FaultSpace ==
    {Fault(k, 0) : k \in {"fetch", "location", "copy", "open", "dump", "chmod",
                           "unlink"}}
    \cup {Fault(k, i) : k \in {"lookup", "adjust", "bulk_api", "bulk_exc"}, i \in Positions}
FaultSets == {F \in SUBSET FaultSpace : Cardinality(F) <= MaxFaults}

Hit(faults, k) == Fault(k, 0) \in faults
HitAt(faults, k) == {f.at : f \in {g \in faults : g.kind = k}}

BulkOutcomeAt(faults, k) ==
    IF k \in HitAt(faults, "bulk_exc") THEN "exception"
    ELSE IF k \in HitAt(faults, "bulk_api") THEN "api_error"
    ELSE "ok"

WriteOutcome(faults) ==
    IF Hit(faults, "open") THEN "open_fails"
    ELSE IF Hit(faults, "dump") THEN "dump_fails"
    ELSE IF Hit(faults, "chmod") THEN "chmod_fails"
    ELSE "ok"

\* ------------------------------------------------------------ orchestrator
SyncSummary(total, ok, fld, skp, unch, nw, md, del, res, nb, upd) ==
    [total_products |-> total, successful |-> ok, failed |-> fld, skipped |-> skp,
     unchanged |-> unch, new |-> nw, modified |-> md, deleted |-> del,
     results |-> res, total_batches |-> nb, snapshot_updated |-> upd]

NoSummary == SyncSummary(0, 0, 0, 0, 0, 0, 0, 0, <<>>, 0, FALSE)
NoChanges == ChangeDetectionResult(<<>>, <<>>, <<>>, 0, 0)
NoLoad == Returned(None)

VARIABLES
    odoo,                \* what get_inventory_by_location returns: the record list
    file,                \* last_sync_snapshot.json
    backups,             \* last_sync_snapshot.json.backup.<timestamp>, oldest first
    shop,                \* the downstream quantities
    cached_location_id,  \* ShopifyService._cached_location_id is set
    max_batch_size,      \* ShopifyService.MAX_BATCH_SIZE, scaled
    told,                \* per SKU, the last quantity an adjustment reported as applied
    out,                 \* what the last operation returned or raised
    last,                \* the operation before it: its mode, how it ended, its source
    calls,               \* the downstream exchanges of the last operation, in order
    runs,                \* operations so far
    given_adjustments,   \* the list create_batches is given, when called on its own
    given_batch_size,    \* the batch_size it is given (0: not called)
    pending_batches,     \* the batches it returned that are still to be dispatched
    backups_made,        \* how many backup files were ever created
    loop_run,            \* the run the event loop of the API is inside ("": none)
    queued,              \* background tasks added and not yet started
    pool_runs,           \* background runs inside, each on a thread of the pool
    run_state,           \* per run inside the API, how far it is and what its lookups prepared
    quants,              \* the stock.quant rows of the location, with their product's SKU
    query                \* the last _run_query call: the responses it met and how it went

\* the API's threads, and the two clients on their own
frontVars == <<loop_run, queued, pool_runs, run_state>>
clientVars == <<quants, query>>

vars == <<odoo, file, backups, shop, cached_location_id, max_batch_size, told, out,
          last, calls, runs, given_adjustments, given_batch_size, pending_batches,
          backups_made, frontVars, clientVars>>

\* the run of the event loop and a run of the pool
RunIds == {"loop", "pool"}
NoPrep == [adjustments |-> <<>>, results |-> <<>>, skipped |-> 0, calls |-> <<>>]
\* at: "idle" | "resolved" (lookups done, nothing dispatched) | "done"
NoneResolved == [r \in RunIds |-> [at |-> "idle", prep |-> NoPrep]]

NoQuery == [responses |-> <<>>, attempts |-> 0, sleeps |-> <<>>, total_retries |-> 0,
            result |-> "none"]

\* no request at the API, nothing asked of the clients
Quiet ==
    /\ loop_run = ""
    /\ queued = 0
    /\ pool_runs = 0
    /\ run_state = NoneResolved
    /\ quants = <<>>
    /\ query = NoQuery

\* out.kind: "none" | "summary" | "raised" | "loaded" | "compared"
Out(o, k, e, det, ch, pts, sm, ld) ==
    [op |-> o, kind |-> k, exc |-> e, src |-> odoo, detected |-> det, changes |-> ch,
     products_to_sync |-> pts, summary |-> sm, load |-> ld]

NoOut == [op |-> "none", kind |-> "none", exc |-> "", src |-> <<>>, detected |-> FALSE,
          changes |-> NoChanges, products_to_sync |-> <<>>, summary |-> NoSummary,
          load |-> NoLoad]

Untold == [known |-> FALSE, qty |-> 0]
ToldBy(f) ==
    [s \in SKUS |-> IF load_snapshot(f).kind = "returned"
                       /\ s \in Keys(load_snapshot(f).snapshot.products)
                    THEN [known |-> TRUE, qty |-> Get(f.products, s).quantity]
                    ELSE Untold]

\* the state an operation leaves, beside its result
Effect(o, f, b, sh, t, c, cl) ==
    [out |-> o, file |-> f, backups |-> b, shop |-> sh, told |-> t, cached |-> c,
     calls |-> cl, copied |-> FALSE]
\* NoEffect, had an early exit removed the snapshot file
NoEffect_unlinking(o, cl) == Effect(o, NoFile, backups, shop, told, cached_location_id, cl)

NoEffect(o, cl) == Effect(o, file, backups, shop, told, cached_location_id, cl)

Finish(e) ==
    /\ out' = e.out
    /\ last' = [op |-> out.op, kind |-> out.kind, src |-> out.src,
                updated |-> out.summary.snapshot_updated]
    /\ file' = e.file
    /\ backups' = e.backups
    /\ shop' = e.shop
    /\ told' = e.told
    /\ cached_location_id' = e.cached
    /\ calls' = e.calls
    /\ runs' = runs + 1
    /\ backups_made' = backups_made + (IF e.copied THEN 1 ELSE 0)
    /\ UNCHANGED <<frontVars, clientVars, odoo, max_batch_size, given_adjustments, given_batch_size,
                   pending_batches>>

\* changes.total_changes == 0: the early return of the optimized mode
\* no_changes, had it asked for nothing unchanged either
no_changes_strict(changes) == changes.total_changes = 0 /\ changes.unchanged_products = 0

no_changes(changes) == changes.total_changes = 0

\* the records of the deleted SKUs the snapshot still holds, at quantity 0
deleted_products(deleted_skus, snapshot) ==
    LET held(s) == s \in Keys(snapshot.products)
        skus == SelectSeq(deleted_skus, held)
    IN [i \in 1..Len(skus) |-> StockQuant(skus[i], 0)]

products_to_sync_of(changes, snapshot) ==
    changes.new_products \o changes.modified_products
        \o deleted_products(changes.deleted_skus, snapshot)

\* get_location_id answers from the cache once it is set
location_calls(faults) ==
    IF cached_location_id THEN <<>>
    ELSE <<LocationCall(IF Hit(faults, "location") THEN "error" ELSE "ok")>>
location_fails(faults) == ~cached_location_id /\ Hit(faults, "location")

\* batched_sync, had the batches gone out before the lookups
batched_sync_dispatch_first(products, faults) ==
    LET prep == prepare_adjustments(products, HitAt(faults, "lookup"), shop, Len(products))
        batches == create_batches(prep.adjustments, max_batch_size)
        outs == [k \in 1..Len(batches) |-> BulkOutcomeAt(faults, k)]
        d == dispatch_batches(batches, outs, max_batch_size, shop, told, Len(batches))
    IN [prep |-> prep, batches |-> batches, d |-> d,
        calls |-> location_calls(faults) \o d.calls \o prep.calls]

\* resolve, batch and dispatch: what the two batched modes share
batched_sync(products, faults) ==
    LET prep == prepare_adjustments(products, HitAt(faults, "lookup"), shop, Len(products))
        batches == create_batches(prep.adjustments, max_batch_size)
        outs == [k \in 1..Len(batches) |-> BulkOutcomeAt(faults, k)]
        d == dispatch_batches(batches, outs, max_batch_size, shop, told, Len(batches))
    IN [prep |-> prep, batches |-> batches, d |-> d,
        calls |-> location_calls(faults) \o prep.calls \o d.calls]

sync_all_inventory_bulk_with_changes(faults) ==
    LET op == "optimized"
        raised(e, det, ch, pts) == Out(op, "raised", e, det, ch, pts, NoSummary, NoLoad)
        returned(det, ch, pts, sm) == Out(op, "summary", "", det, ch, pts, sm, NoLoad)
        loaded == load_snapshot(file)
        snapshot == loaded.snapshot
        changes == compare_with_current(odoo, snapshot)
        nnew == Len(changes.new_products)
        nmod == Len(changes.modified_products)
        ndel == Len(changes.deleted_skus)
        products_to_sync == products_to_sync_of(changes, snapshot)
        b == batched_sync(products_to_sync, faults)
        sv == save_snapshot(file, backups, odoo, ~Hit(faults, "copy"), WriteOutcome(faults))
    IN
    IF Hit(faults, "fetch")
    THEN NoEffect(raised("OdooConnectionError", FALSE, NoChanges, <<>>), <<>>)
    ELSE IF odoo = <<>>
    THEN NoEffect(returned(FALSE, NoChanges, <<>>, NoSummary), <<>>)
    ELSE IF loaded.kind = "raised"
    THEN NoEffect(raised(loaded.exc, FALSE, NoChanges, <<>>), <<>>)
    ELSE IF no_changes(changes)
    THEN NoEffect(returned(TRUE, changes, <<>>,
             SyncSummary(Len(odoo), 0, 0, 0, changes.unchanged_products, 0, 0, 0,
                         <<>>, 0, FALSE)), <<>>)
    ELSE IF location_fails(faults)
    THEN NoEffect(raised("ShopifyGraphQLError", TRUE, changes, products_to_sync),
                  location_calls(faults))
    ELSE IF b.prep.adjustments = <<>>
    THEN Effect(returned(TRUE, changes, products_to_sync,
                    SyncSummary(Len(odoo), 0, b.prep.skipped, b.prep.skipped,
                                changes.unchanged_products, nnew, nmod, ndel,
                                b.prep.results, 0, FALSE)),
                file, backups, shop, told, TRUE, b.calls)
    ELSE [Effect(returned(TRUE, changes, products_to_sync,
                    SyncSummary(Len(odoo), b.d.successful, b.d.failed, b.prep.skipped,
                                changes.unchanged_products, nnew, nmod, ndel,
                                b.prep.results \o b.d.results, Len(b.batches), sv.ok)),
                sv.file, sv.backups, b.d.shop, b.d.told, TRUE, b.calls)
            EXCEPT !.copied = backup_copied(file, ~Hit(faults, "copy"))]

\* sync_all_inventory_bulk, had it detected changes against the snapshot
sync_all_inventory_bulk_detecting(faults) ==
    [sync_all_inventory_bulk_with_changes(faults) EXCEPT !.out.op = "bulk"]

sync_all_inventory_bulk(faults) ==
    LET op == "bulk"
        raised(e) == Out(op, "raised", e, FALSE, NoChanges, <<>>, NoSummary, NoLoad)
        returned(pts, sm) == Out(op, "summary", "", FALSE, NoChanges, pts, sm, NoLoad)
        b == batched_sync(odoo, faults)
    IN
    IF Hit(faults, "fetch")
    THEN NoEffect(raised("OdooConnectionError"), <<>>)
    ELSE IF odoo = <<>>
    THEN NoEffect(returned(<<>>, NoSummary), <<>>)
    ELSE IF location_fails(faults)
    THEN NoEffect(raised("ShopifyGraphQLError"), location_calls(faults))
    ELSE IF b.prep.adjustments = <<>>
    THEN Effect(returned(odoo, SyncSummary(Len(odoo), 0, 0, b.prep.skipped, 0, 0, 0, 0,
                                           b.prep.results, 0, FALSE)),
                file, backups, shop, told, TRUE, b.calls)
    ELSE Effect(returned(odoo, SyncSummary(Len(odoo), b.d.successful, b.d.failed,
                                           b.prep.skipped, 0, 0, 0, 0,
                                           b.prep.results \o b.d.results,
                                           Len(b.batches), FALSE)),
                file, backups, b.d.shop, b.d.told, TRUE, b.calls)

AdjustCall(adj, r) == Call("adjust", adj.sku, <<>>, <<adj>>, r)

\* The loop of the per-item mode over products[1..i]: _sync_single_product and
\* sync_stock on each record, every failure turned into a failed result.
RECURSIVE sync_products(_, _, _)
sync_products(products, faults, i) ==
    IF i = 0
    THEN [successful |-> 0, failed |-> 0, results |-> <<>>, calls |-> <<>>,
          shop |-> shop, told |-> told, cached |-> cached_location_id]
    ELSE LET r == sync_products(products, faults, i - 1)
             p == products[i]
             new_quantity == ToInt(p.quantity)
             variant == r.shop[p.sku]
             adj == Adjustment(p.sku, compute_delta(new_quantity, variant.qty),
                               new_quantity)
             fail(cl, c) == [r EXCEPT !.failed = @ + 1,
                                      !.results = Append(@, Failure(p.sku)),
                                      !.calls = @ \o cl, !.cached = c]
             done(cl, sh) == [successful |-> r.successful + 1, failed |-> r.failed,
                              results |-> Append(r.results,
                                  SyncResult(TRUE, p.sku, TRUE, adj.available_delta)),
                              calls |-> r.calls \o cl, shop |-> sh,
                              told |-> tell_all(r.told, <<adj>>), cached |-> TRUE]
             loc == IF r.cached THEN <<>> ELSE <<LocationCall("ok")>>
         IN IF ~r.cached /\ Hit(faults, "location")
            THEN fail(<<LocationCall("error")>>, FALSE)
            ELSE IF i \in HitAt(faults, "lookup")
            THEN fail(loc \o <<LookupCall(p.sku, "error")>>, TRUE)
            ELSE IF ~variant.found
            THEN fail(loc \o <<LookupCall(p.sku, "none")>>, TRUE)
            ELSE IF ~nonzero(adj)
            THEN done(loc \o <<LookupCall(p.sku, "ok")>>, r.shop)
            ELSE IF i \in HitAt(faults, "adjust")
            THEN fail(loc \o <<LookupCall(p.sku, "ok"), AdjustCall(adj, "error")>>, TRUE)
            ELSE done(loc \o <<LookupCall(p.sku, "ok"), AdjustCall(adj, "ok")>>,
                      apply_deltas(r.shop, <<adj>>))

sync_all_inventory(faults) ==
    LET op == "single"
        raised(e) == Out(op, "raised", e, FALSE, NoChanges, <<>>, NoSummary, NoLoad)
        returned(pts, sm) == Out(op, "summary", "", FALSE, NoChanges, pts, sm, NoLoad)
        r == sync_products(odoo, faults, Len(odoo))
    IN
    IF Hit(faults, "fetch")
    THEN NoEffect(raised("OdooConnectionError"), <<>>)
    ELSE IF odoo = <<>>
    THEN NoEffect(returned(<<>>, NoSummary), <<>>)
    ELSE Effect(returned(odoo, SyncSummary(Len(odoo), r.successful, r.failed, 0, 0, 0, 0, 0,
                                           r.results, 0, FALSE)),
                file, backups, r.shop, r.told, r.cached, r.calls)

\* ------------------------------------------------------------ specifications
SyncOptimized(limit) ==
    /\ runs < limit
    /\ \E faults \in FaultSets : Finish(sync_all_inventory_bulk_with_changes(faults))

SyncBulk(limit) ==
    /\ runs < limit
    /\ \E faults \in FaultSets : Finish(sync_all_inventory_bulk(faults))

SyncSingle(limit) ==
    /\ runs < limit
    /\ \E faults \in FaultSets : Finish(sync_all_inventory(faults))

Corrupt(k, t, p, ok) == SnapFile(k, t, p, <<>>, 0, ok)

\* the snapshot files a run may find: none, unparseable text, JSON that is
\* not an object, and every well-formed snapshot
InitFiles ==
    {NoFile, Corrupt("truncated", "iso", "map", TRUE), Corrupt("nonobject", "iso", "map", TRUE)}
    \cup {ValidFile(d, Len(d)) : d \in AllDicts}

\* and the other ways the file can be off
AllFiles ==
    InitFiles \cup
    {Corrupt("unreadable", "iso", "map", TRUE), Corrupt("object", "missing", "map", TRUE),
     Corrupt("object", "nonstr", "map", TRUE), Corrupt("object", "bad", "map", TRUE),
     Corrupt("object", "iso", "missing", TRUE), Corrupt("object", "iso", "nonmap", TRUE),
     Corrupt("object", "iso", "map", FALSE)}

Fresh ==
    /\ backups = <<>>
    /\ cached_location_id = FALSE
    /\ told = ToldBy(file)
    /\ out = NoOut
    /\ last = [op |-> "none", kind |-> "none", src |-> <<>>, updated |-> FALSE]
    /\ calls = <<>>
    /\ runs = 0
    /\ given_batch_size = 0
    /\ pending_batches = <<>>
    /\ backups_made = 0
    /\ Quiet

\* SKUs are interchangeable: the runs are checked with the first fetched
\* record, if there is one, named "A"
RunLists == {l \in AllLists : l = <<>> \/ l[1].sku = "A"}

Init ==
    /\ odoo \in RunLists
    /\ given_adjustments = <<>>
    /\ file \in InitFiles
    /\ shop \in AllShops
    /\ max_batch_size \in 1..MaxBatch
    /\ Fresh

Next ==
    \/ SyncOptimized(MaxOps)
    \/ SyncBulk(MaxOps)
    \/ SyncSingle(MaxOps)

Spec == Init /\ [][Next]_vars

\* the optimized mode run again and again
NextTwice == SyncOptimized(MaxRuns)

SpecTwice == Init /\ [][NextTwice]_vars

\* the snapshot store and the change detector on their own: every file, every
\* record list
LoadSnapshot ==
    /\ out.kind = "none"
    /\ out' = Out("load", "loaded", "", FALSE, NoChanges, <<>>, NoSummary,
                  load_snapshot(file))
    /\ UNCHANGED <<frontVars, clientVars, odoo, file, backups, shop, cached_location_id, max_batch_size, told,
                   last, calls, runs, given_adjustments, given_batch_size,
                   pending_batches, backups_made>>

CompareWithCurrent ==
    /\ out.kind = "loaded"
    /\ out.load.kind = "returned"
    /\ out' = Out("compare", "compared", "", TRUE,
                  compare_with_current(odoo, out.load.snapshot), <<>>, NoSummary, out.load)
    /\ UNCHANGED <<frontVars, clientVars, odoo, file, backups, shop, cached_location_id, max_batch_size, told,
                   last, calls, runs, given_adjustments, given_batch_size,
                   pending_batches, backups_made>>

InitDetect ==
    /\ odoo \in AllLists
    /\ given_adjustments = <<>>
    /\ file \in AllFiles
    /\ shop = [s \in SKUS |-> Variant(FALSE, 0)]
    /\ max_batch_size = MaxBatch
    /\ Fresh

NextDetect ==
    \/ LoadSnapshot
    \/ CompareWithCurrent

SpecDetect == InitDetect /\ [][NextDetect]_vars

\* the executor on its own: create_batches on any list with any batch_size,
\* then bulk_adjust_inventory on each batch it returned
MaxItems == 3
AdjustmentLists ==
    UNION {[1..n -> {Adjustment(sk, d, d) : sk \in SKUS, d \in -1..1}] : n \in 0..MaxItems}

CreateBatches ==
    /\ given_batch_size = 0
    /\ \E size \in 1..(MaxBatch + 1) :
          /\ given_batch_size' = size
          /\ pending_batches' = create_batches(given_adjustments, size)
    /\ out' = Out("create_batches", "batched", "", FALSE, NoChanges, <<>>, NoSummary, NoLoad)
    /\ UNCHANGED <<frontVars, clientVars, odoo, file, backups, shop, cached_location_id, max_batch_size, told,
                   last, calls, runs, given_adjustments, backups_made>>

BulkAdjustInventory ==
    /\ pending_batches # <<>>
    /\ \E outcome \in BulkOutcomes :
          LET batch == Head(pending_batches)
              b == bulk_adjust_inventory(batch, outcome, max_batch_size)
          IN /\ calls' = Append(calls, Call("bulk", "", batch, b.sent, b.res))
             /\ shop' = IF b.res = "ok" THEN apply_deltas(shop, b.sent) ELSE shop
             /\ out' = Out("bulk_adjust_inventory",
                           IF b.raised THEN "raised" ELSE "result",
                           IF ~b.raised THEN ""
                           ELSE IF b.res = "rejected" THEN "ValueError" ELSE "Exception",
                           FALSE, NoChanges, <<>>,
                           SyncSummary(Len(batch), b.result.items_updated,
                                       b.result.items_failed, 0, 0, 0, 0, 0, <<>>, 0, FALSE),
                           NoLoad)
    /\ pending_batches' = Tail(pending_batches)
    /\ UNCHANGED <<frontVars, clientVars, odoo, file, backups, cached_location_id, max_batch_size, told,
                   last, runs, given_adjustments, given_batch_size, backups_made>>

InitBatch ==
    /\ odoo = <<>>
    /\ given_adjustments \in AdjustmentLists
    /\ file = NoFile
    /\ shop = [s \in SKUS |-> Variant(TRUE, 0)]
    /\ max_batch_size \in 1..MaxBatch
    /\ Fresh

NextBatch ==
    \/ CreateBatches
    \/ BulkAdjustInventory

SpecBatch == InitBatch /\ [][NextBatch]_vars

\* the snapshot store on its own, from an empty snapshot directory:
\* save_snapshot with any record list and reset_snapshot, in any order, any
\* one step of either failing.  out.kind is what the call returned, out.exc
\* the step that failed.
MaxStoreOps == 5
StoreLists == {l \in RunLists : Len(l) <= 1}

\* the step of save_snapshot that raises first, given the file it finds
save_failed_step(f, faults) ==
    IF f.kind # "missing" /\ Hit(faults, "copy") THEN "copy"
    ELSE IF WriteOutcome(faults) = "open_fails" THEN "open"
    ELSE IF WriteOutcome(faults) = "dump_fails" THEN "dump"
    ELSE IF WriteOutcome(faults) = "chmod_fails" THEN "chmod"
    ELSE ""

reset_failed_step(f, faults) ==
    IF f.kind = "missing" THEN ""
    ELSE IF Hit(faults, "copy") THEN "copy"
    ELSE IF Hit(faults, "unlink") THEN "unlink"
    ELSE ""

Bool(b) == IF b THEN "true" ELSE "false"

SaveSnapshot ==
    /\ runs < MaxStoreOps
    /\ \E products \in StoreLists, faults \in FaultSets :
          LET sv == save_snapshot(file, backups, products, ~Hit(faults, "copy"),
                                  WriteOutcome(faults))
          IN /\ file' = sv.file
             /\ backups' = sv.backups
             /\ backups_made' = backups_made
                    + (IF backup_copied(file, ~Hit(faults, "copy")) THEN 1 ELSE 0)
             /\ out' = Out("save_snapshot", Bool(sv.ok), save_failed_step(file, faults),
                           FALSE, NoChanges, <<>>, NoSummary, NoLoad)
    /\ runs' = runs + 1
    /\ UNCHANGED <<frontVars, clientVars, odoo, shop, cached_location_id, max_batch_size, told, last, calls,
                   given_adjustments, given_batch_size, pending_batches>>

ResetSnapshot ==
    /\ runs < MaxStoreOps
    /\ \E faults \in FaultSets :
          LET r == reset_snapshot(file, backups, ~Hit(faults, "copy"),
                                  ~Hit(faults, "unlink"))
          IN /\ file' = r.file
             /\ backups' = r.backups
             /\ backups_made' = backups_made
                    + (IF backup_copied(file, ~Hit(faults, "copy")) THEN 1 ELSE 0)
             /\ out' = Out("reset_snapshot", Bool(r.ok), reset_failed_step(file, faults),
                           FALSE, NoChanges, <<>>, NoSummary, NoLoad)
    /\ runs' = runs + 1
    /\ UNCHANGED <<frontVars, clientVars, odoo, shop, cached_location_id, max_batch_size, told, last, calls,
                   given_adjustments, given_batch_size, pending_batches>>

InitStore ==
    /\ odoo = <<>>
    /\ given_adjustments = <<>>
    /\ file = NoFile
    /\ shop = [s \in SKUS |-> Variant(FALSE, 0)]
    /\ max_batch_size = MaxBatch
    /\ Fresh

NextStore ==
    \/ SaveSnapshot
    \/ ResetSnapshot

SpecStore == InitStore /\ [][NextStore]_vars

\* ------------------------------------------------------------ front doors
\* the batch count the previews estimate: len // 250 + 1, on the scaled size
estimated_batches(n) == (n \div max_batch_size) + 1

\* preview_changes, had it gone on to run the optimized sync
preview_changes_syncing(faults) ==
    [sync_all_inventory_bulk_with_changes(faults) EXCEPT !.out.op = "preview"]

\* GET /sync/preview: fetch, load, compare, estimate. Every exception becomes
\* an HTTP 500. The summary carries the counts of the answer, total_batches
\* its estimated_batches.
preview_changes(faults) ==
    LET op == "preview"
        raised(e) == Out(op, "raised", e, FALSE, NoChanges, <<>>, NoSummary, NoLoad)
        loaded == load_snapshot(file)
        changes == compare_with_current(odoo, loaded.snapshot)
        products_to_sync == changes.new_products \o changes.modified_products
        n == Len(products_to_sync)
    IN
    IF Hit(faults, "fetch") THEN NoEffect(raised("HTTPException"), <<>>)
    ELSE IF odoo = <<>>
    THEN NoEffect(Out(op, "preview", "", FALSE, NoChanges, <<>>, NoSummary, NoLoad), <<>>)
    ELSE IF loaded.kind = "raised" THEN NoEffect(raised("HTTPException"), <<>>)
    ELSE NoEffect(Out(op, "preview", "", TRUE, changes, products_to_sync,
                      SyncSummary(Len(odoo), 0, 0, 0, changes.unchanged_products,
                                  Len(changes.new_products), Len(changes.modified_products),
                                  Len(changes.deleted_skus), <<>>,
                                  IF n = 0 THEN 0 ELSE estimated_batches(n), FALSE),
                      NoLoad), <<>>)

\* the preview command of the CLI: the same on a SyncService of its own; it
\* prints, and exits with 1 on an empty fetch or any exception
preview_changes_cli(faults) ==
    LET op == "preview_cli"
        exit1(e) == Out(op, "raised", e, FALSE, NoChanges, <<>>, NoSummary, NoLoad)
        loaded == load_snapshot(file)
        changes == compare_with_current(odoo, loaded.snapshot)
        n == Len(changes.new_products) + Len(changes.modified_products)
                 + Len(changes.deleted_skus)
    IN
    IF Hit(faults, "fetch") THEN NoEffect(exit1("OdooConnectionError"), <<>>)
    ELSE IF odoo = <<>> THEN NoEffect(exit1(""), <<>>)
    ELSE IF loaded.kind = "raised" THEN NoEffect(exit1(loaded.exc), <<>>)
    ELSE NoEffect(Out(op, "preview", "", TRUE, changes,
                      changes.new_products \o changes.modified_products,
                      SyncSummary(Len(odoo), 0, 0, 0, changes.unchanged_products,
                                  Len(changes.new_products), Len(changes.modified_products),
                                  Len(changes.deleted_skus), <<>>,
                                  IF changes.total_changes = 0 THEN 0
                                  ELSE estimated_batches(n), FALSE),
                      NoLoad), <<>>)

PreviewChanges ==
    /\ runs < MaxOps
    /\ \E faults \in FaultSets : Finish(preview_changes(faults))

PreviewChangesCli ==
    /\ runs < MaxOps
    /\ \E faults \in FaultSets : Finish(preview_changes_cli(faults))

\* a preview may find any file, backups of earlier saves, and a service that
\* has or has not resolved its location yet
InitPreview ==
    /\ odoo \in RunLists
    /\ given_adjustments = <<>>
    /\ file \in AllFiles
    /\ backups \in {<<>>, <<ValidFile(<<>>, 0)>>}
    /\ shop = [s \in SKUS |-> Variant(TRUE, 0)]
    /\ max_batch_size \in 1..MaxBatch
    /\ cached_location_id \in BOOLEAN
    /\ told = ToldBy(file)
    /\ out = NoOut
    /\ last = [op |-> "none", kind |-> "none", src |-> <<>>, updated |-> FALSE]
    /\ calls = <<>>
    /\ runs = 0
    /\ given_batch_size = 0
    /\ pending_batches = <<>>
    /\ backups_made = 0
    /\ Quiet

NextPreview ==
    \/ PreviewChanges
    \/ PreviewChangesCli

SpecPreview == InitPreview /\ [][NextPreview]_vars

\* sync --force of the CLI, a process of its own with a new SyncService:
\* reset_snapshot, its answer ignored, ...
ForceReset ==
    /\ runs < MaxOps
    /\ ~(out.op = "force" /\ out.kind = "reset")
    /\ \E faults \in FaultSets :
          LET r == reset_snapshot(file, backups, ~Hit(faults, "copy"),
                                  ~Hit(faults, "unlink"))
          IN /\ file' = r.file
             /\ backups' = r.backups
             /\ backups_made' = backups_made
                    + (IF backup_copied(file, ~Hit(faults, "copy")) THEN 1 ELSE 0)
             /\ out' = Out("force", "reset", reset_failed_step(file, faults),
                           FALSE, NoChanges, <<>>, NoSummary, NoLoad)
    /\ cached_location_id' = FALSE
    /\ calls' = <<>>
    /\ UNCHANGED <<frontVars, clientVars, odoo, shop, max_batch_size, told, last, runs, given_adjustments,
                   given_batch_size, pending_batches>>

\* ... and then the optimized run
ForceSync ==
    /\ out.op = "force"
    /\ out.kind = "reset"
    /\ \E faults \in FaultSets :
          Finish([sync_all_inventory_bulk_with_changes(faults) EXCEPT !.out.op = "force"])

NextForce ==
    \/ ForceReset
    \/ ForceSync

SpecForce == Init /\ [][NextForce]_vars

\* ------------------------------------------------------------ HTTP API
\* The endpoints are coroutines that call the one SyncService without
\* awaiting: the event loop is inside the run until it returns, and takes no
\* other request meanwhile. The task /sync/async adds is a plain function: it
\* is run on a thread of the framework's pool once the response is out, and
\* the event loop is free while it runs. Nothing in api.py holds a lock. What
\* a run does is in the orchestrator's specifications; here, when runs begin
\* and end.
MaxRequests == 6
MaxThreads == 2

runVars == <<odoo, file, backups, shop, cached_location_id, max_batch_size, told, out,
             last, calls, given_adjustments, given_batch_size, pending_batches,
             backups_made>>

\* POST /sync calls sync_all_inventory_bulk_with_changes
PostSync ==
    /\ runs < MaxRequests
    /\ loop_run = ""
    /\ loop_run' = "optimized"
    /\ runs' = runs + 1
    /\ UNCHANGED <<runVars, clientVars, queued, pool_runs, run_state>>

\* POST /sync/single calls sync_all_inventory
PostSyncSingle ==
    /\ runs < MaxRequests
    /\ loop_run = ""
    /\ loop_run' = "single"
    /\ runs' = runs + 1
    /\ UNCHANGED <<runVars, clientVars, queued, pool_runs, run_state>>

\* the run returns or raises, and the endpoint answers
SyncReturns ==
    /\ loop_run # ""
    /\ loop_run' = ""
    /\ UNCHANGED <<runVars, clientVars, runs, queued, pool_runs, run_state>>

\* POST /sync/async adds run_sync to the background tasks and answers
PostSyncAsync ==
    /\ runs < MaxRequests
    /\ loop_run = ""
    /\ queued' = queued + 1
    /\ runs' = runs + 1
    /\ UNCHANGED <<runVars, clientVars, loop_run, pool_runs, run_state>>

\* the event loop, free again, hands run_sync to a free thread of the pool:
\* sync_all_inventory_bulk
BackgroundStarts ==
    /\ loop_run = ""
    /\ queued > 0
    /\ pool_runs < MaxThreads
    /\ queued' = queued - 1
    /\ pool_runs' = pool_runs + 1
    /\ UNCHANGED <<runVars, clientVars, runs, loop_run, run_state>>

\* and ends, its exceptions logged
BackgroundEnds ==
    /\ pool_runs > 0
    /\ pool_runs' = pool_runs - 1
    /\ UNCHANGED <<runVars, clientVars, runs, loop_run, queued, run_state>>

InitHttp ==
    /\ odoo = <<>>
    /\ given_adjustments = <<>>
    /\ file = NoFile
    /\ shop = [s \in SKUS |-> Variant(TRUE, 0)]
    /\ max_batch_size = MaxBatch
    /\ Fresh

NextHttp ==
    \/ PostSync
    \/ PostSyncSingle
    \/ SyncReturns
    \/ PostSyncAsync
    \/ BackgroundStarts
    \/ BackgroundEnds

SpecHttp == InitHttp /\ [][NextHttp]_vars

\* ------------------------------------------------------------ worked example
\* The run of spec.md's example: the snapshot holds A at 10 and B at 5, the
\* fetch gives A 10, B 7 and C 3; the downstream system may or may not know
\* each SKU, at any of a few quantities; the batch size is the real one.
MAX_BATCH_SIZE == 250
ExampleSkus == {"A", "B", "C"}
ExampleQuantities == {0, 3, 5, 7}
ExampleFetch == <<StockQuant("A", 20), StockQuant("B", 14), StockQuant("C", 6)>>
ExampleSnapshot == <<SnapshotProduct("A", 10), SnapshotProduct("B", 5)>>

InitExample ==
    /\ odoo = ExampleFetch
    /\ given_adjustments = <<>>
    /\ file = ValidFile(ExampleSnapshot, Len(ExampleSnapshot))
    /\ backups = <<>>
    /\ shop \in [ExampleSkus -> {Variant(FALSE, 0)}
                                  \cup {Variant(TRUE, q) : q \in ExampleQuantities}]
    /\ max_batch_size = MAX_BATCH_SIZE
    /\ cached_location_id = FALSE
    /\ told = [s \in ExampleSkus |->
                 IF s \in Keys(ExampleSnapshot)
                 THEN [known |-> TRUE, qty |-> Get(ExampleSnapshot, s).quantity]
                 ELSE Untold]
    /\ out = NoOut
    /\ last = [op |-> "none", kind |-> "none", src |-> <<>>, updated |-> FALSE]
    /\ calls = <<>>
    /\ runs = 0
    /\ given_batch_size = 0
    /\ pending_batches = <<>>
    /\ backups_made = 0
    /\ Quiet

NextExample == SyncOptimized(MaxOps)

SpecExample == InitExample /\ [][NextExample]_vars

\* ------------------------------------------------------------ Odoo client
\* the rows search_read gives, each with the default_code of its product, ""
\* for a product that has none left after strip(); the domain asks for
\* quantity > 0
QuantRows ==
    UNION {[1..n -> {StockQuant(s, h) : s \in SKUS \cup {""}, h \in HalfQ \ {0}}] :
              n \in 0..MaxLen}

\* what can go wrong in one fetch: the authentication, the search_read, the
\* read of the product of the i-th row
FetchFaultSpace ==
    {Fault("authenticate", 0), Fault("search_read", 0)}
    \cup {Fault("read", i) : i \in 1..MaxLen}
FetchFaultSets == {F \in SUBSET FetchFaultSpace : Cardinality(F) <= MaxFaults}

\* _get_product_sku: the default_code, or None ("") when the product has none
\* and when the read raises
get_product_sku(row, fails) == IF fails THEN "" ELSE row.sku

\* the loop of get_inventory_by_location over rows[1..i]: a row without SKU
\* is left out
RECURSIVE stock_quants_of(_, _, _)
stock_quants_of(rows, failing, i) ==
    IF i = 0 THEN <<>>
    ELSE LET sku == get_product_sku(rows[i], i \in failing)
             before == stock_quants_of(rows, failing, i - 1)
         IN IF sku = "" THEN before
            ELSE Append(before, StockQuant(sku, rows[i].quantity))

\* every exception of the body becomes an OdooConnectionError
get_inventory_by_location(rows, faults) ==
    IF Hit(faults, "authenticate") \/ Hit(faults, "search_read")
    THEN [kind |-> "raised", exc |-> "OdooConnectionError", records |-> <<>>]
    ELSE [kind |-> "returned", exc |-> "",
          records |-> stock_quants_of(rows, HitAt(faults, "read"), Len(rows))]

GetInventoryByLocation ==
    /\ out.kind = "none"
    /\ \E faults \in FetchFaultSets :
          LET r == get_inventory_by_location(quants, faults)
          IN /\ odoo' = r.records
             /\ out' = Out("fetch", r.kind, r.exc, FALSE, NoChanges, <<>>, NoSummary, NoLoad)
    /\ runs' = runs + 1
    /\ UNCHANGED <<frontVars, file, backups, shop, cached_location_id, max_batch_size,
                   told, last, calls, given_adjustments, given_batch_size,
                   pending_batches, backups_made, quants, query>>

InitFetch ==
    /\ quants \in QuantRows
    /\ odoo = <<>>
    /\ given_adjustments = <<>>
    /\ file = NoFile
    /\ backups = <<>>
    /\ shop = [s \in SKUS |-> Variant(TRUE, 0)]
    /\ max_batch_size = MaxBatch
    /\ cached_location_id = FALSE
    /\ told = ToldBy(file)
    /\ out = NoOut
    /\ last = [op |-> "none", kind |-> "none", src |-> <<>>, updated |-> FALSE]
    /\ calls = <<>>
    /\ runs = 0
    /\ given_batch_size = 0
    /\ pending_batches = <<>>
    /\ backups_made = 0
    /\ loop_run = ""
    /\ queued = 0
    /\ pool_runs = 0
    /\ run_state = NoneResolved
    /\ query = NoQuery

NextFetch == GetInventoryByLocation

SpecFetch == InitFetch /\ [][NextFetch]_vars

\* ------------------------------------------------------------ GraphQL client
MAX_RETRIES == 4
INITIAL_BACKOFF == 1

\* what one HTTP attempt can meet: a 200 with data, a 429, a 200 whose errors
\* say "throttled", a 200 with other errors, another 4xx, a 5xx, and an
\* exception of the transport
Responses == {"ok", "http429", "throttled", "graphql_error", "http4xx", "http5xx", "network"}

\* more responses than one call can use
MaxResponses == MAX_RETRIES + 2

\* backoff_time, had it grown by INITIAL_BACKOFF each retry
backoff_time_linear(retry_count) == INITIAL_BACKOFF * (retry_count + 1)

backoff_time(retry_count) == INITIAL_BACKOFF * (2 ^ retry_count)

\* may_retry, had the retry count not been looked at
may_retry_always(retry_count) == TRUE

may_retry(retry_count) == retry_count < MAX_RETRIES

\* retryable, had every failure been taken as transient
retryable_any(response) == response # "ok"

\* the four branches that sleep and call _run_query again
retryable(response) == response \in {"http429", "throttled", "http5xx", "network"}

\* _run_query, had only the retry after a 429 been counted
RECURSIVE run_query_counting_429(_, _, _)
run_query_counting_429(rs, retry_count, q) ==
    IF retry_count + 1 > Len(rs) THEN [q EXCEPT !.result = "pending"]
    ELSE LET response == rs[retry_count + 1]
             met == [q EXCEPT !.responses = Append(@, response), !.attempts = @ + 1]
         IN IF response = "ok" THEN [met EXCEPT !.result = "data"]
            ELSE IF retryable(response) /\ may_retry(retry_count)
            THEN run_query_counting_429(rs, retry_count + 1,
                     [met EXCEPT !.sleeps = Append(@, backoff_time(retry_count)),
                                 !.total_retries = IF response = "http429" THEN @ + 1 ELSE @])
            ELSE [met EXCEPT !.result = IF response = "http429" THEN "RateLimitExceeded"
                                        ELSE "ShopifyGraphQLError"]

\* _run_query(query, variables, retry_count) against the responses rs, q what
\* the call has done so far
RECURSIVE run_query(_, _, _)
run_query(rs, retry_count, q) ==
    IF retry_count + 1 > Len(rs) THEN [q EXCEPT !.result = "pending"]
    ELSE LET response == rs[retry_count + 1]
             met == [q EXCEPT !.responses = Append(@, response), !.attempts = @ + 1]
         IN IF response = "ok" THEN [met EXCEPT !.result = "data"]
            ELSE IF retryable(response) /\ may_retry(retry_count)
            THEN run_query(rs, retry_count + 1,
                           [met EXCEPT !.sleeps = Append(@, backoff_time(retry_count)),
                                       !.total_retries = @ + 1])
            ELSE [met EXCEPT !.result = IF response = "http429" THEN "RateLimitExceeded"
                                        ELSE "ShopifyGraphQLError"]

RunQuery ==
    /\ query.result = "none"
    /\ \E rs \in [1..MaxResponses -> Responses] : query' = run_query(rs, 0, NoQuery)
    /\ runs' = runs + 1
    /\ UNCHANGED <<frontVars, odoo, file, backups, shop, cached_location_id,
                   max_batch_size, told, out, last, calls, given_adjustments,
                   given_batch_size, pending_batches, backups_made, quants>>

InitQuery ==
    /\ odoo = <<>>
    /\ given_adjustments = <<>>
    /\ file = NoFile
    /\ shop = [s \in SKUS |-> Variant(TRUE, 0)]
    /\ max_batch_size = MaxBatch
    /\ Fresh

NextQuery == RunQuery

SpecQuery == InitQuery /\ [][NextQuery]_vars

\* ------------------------------------------------------------ save, then compare
\* an earlier fetch is saved, its answer and the list kept in last; a later
\* fetch is then compared with what load_snapshot reads back
SaveEarlier ==
    /\ out.kind = "none"
    /\ last.op = "none"
    /\ \E products \in AllLists, faults \in FaultSets :
          LET sv == save_snapshot(file, backups, products, ~Hit(faults, "copy"),
                                  WriteOutcome(faults))
          IN /\ file' = sv.file
             /\ backups' = sv.backups
             /\ backups_made' = backups_made
                    + (IF backup_copied(file, ~Hit(faults, "copy")) THEN 1 ELSE 0)
             /\ last' = [op |-> "save_snapshot", kind |-> Bool(sv.ok), src |-> products,
                         updated |-> sv.ok]
    /\ runs' = runs + 1
    /\ UNCHANGED <<frontVars, clientVars, odoo, shop, cached_location_id, max_batch_size,
                   told, out, calls, given_adjustments, given_batch_size,
                   pending_batches>>

InitSaved ==
    /\ odoo \in AllLists
    /\ given_adjustments = <<>>
    /\ file = NoFile
    /\ shop = [s \in SKUS |-> Variant(FALSE, 0)]
    /\ max_batch_size = MaxBatch
    /\ Fresh

NextSaved ==
    \/ SaveEarlier
    \/ LoadSnapshot
    \/ CompareWithCurrent

SpecSaved == InitSaved /\ [][NextSaved]_vars

\* ------------------------------------------------------------ two runs at once
\* A POST /sync run on the event loop ("loop") and a /sync/async run on a
\* thread of the pool ("pool"), both accepted, each taken in two steps: its code
\* up to the end of the lookups, and its batches with what follows them.
\* Nothing fails in either.

\* the run, had it been alone from here
whole_run(r) ==
    IF r = "loop" THEN sync_all_inventory_bulk_with_changes({})
    ELSE sync_all_inventory_bulk({})

\* products_to_sync of the one, stock_quants of the other
submitted(e) == e.out.products_to_sync

\* the run returns or raises before its dispatch loop
ends_early(e) == e.out.kind = "raised" \/ e.out.summary.total_batches = 0

Leaves(r) ==
    /\ loop_run' = IF r = "loop" THEN "" ELSE loop_run
    /\ pool_runs' = IF r = "pool" THEN pool_runs - 1 ELSE pool_runs
    /\ last' = [op |-> out.op, kind |-> out.kind, src |-> out.src,
                updated |-> out.summary.snapshot_updated]
    /\ runs' = runs + 1

\* the run e, its lookups having prepared prep, returns here or goes on
resolve_step(r, e, prep) ==
    IF ends_early(e)
    THEN /\ out' = e.out
         /\ calls' = calls \o e.calls
         /\ cached_location_id' = e.cached
         /\ run_state' = [run_state EXCEPT ![r] = [at |-> "done", prep |-> NoPrep]]
         /\ Leaves(r)
    ELSE /\ calls' = calls \o location_calls({}) \o prep.calls
         /\ cached_location_id' = TRUE
         /\ run_state' = [run_state EXCEPT ![r] = [at |-> "resolved", prep |-> prep]]
         /\ UNCHANGED <<out, last, runs, loop_run, pool_runs>>

resolve_from(r, e) ==
    resolve_step(r, e, prepare_adjustments(submitted(e), {}, shop, Len(submitted(e))))

\* fetch, change detection, location, and the lookup of every submitted record
RunResolves(r) ==
    /\ run_state[r].at = "idle"
    /\ IF r = "loop" THEN loop_run = "optimized" ELSE pool_runs > 0
    /\ resolve_from(r, whole_run(r))
    /\ UNCHANGED <<clientVars, queued, odoo, file, backups, shop, max_batch_size, told,
                   given_adjustments, given_batch_size, pending_batches, backups_made>>

\* create_batches, the dispatch loop from the deltas the lookups gave, and in
\* the optimized run save_snapshot
RunDispatches(r) ==
    /\ run_state[r].at = "resolved"
    /\ LET prep == run_state[r].prep
           batches == create_batches(prep.adjustments, max_batch_size)
           outs == [k \in 1..Len(batches) |-> "ok"]
           d == dispatch_batches(batches, outs, max_batch_size, shop, told, Len(batches))
           sv == save_snapshot(file, backups, odoo, TRUE, "ok")
       IN /\ shop' = d.shop
          /\ told' = d.told
          /\ calls' = calls \o d.calls
          /\ out' = [whole_run(r).out EXCEPT !.summary.successful = d.successful,
                                             !.summary.failed = d.failed,
                                             !.summary.results = prep.results \o d.results]
          /\ file' = IF r = "loop" THEN sv.file ELSE file
          /\ backups' = IF r = "loop" THEN sv.backups ELSE backups
          /\ backups_made' = backups_made
                               + (IF r = "loop" /\ backup_copied(file, TRUE) THEN 1 ELSE 0)
    /\ run_state' = [run_state EXCEPT ![r].at = "done"]
    /\ Leaves(r)
    /\ UNCHANGED <<clientVars, queued, odoo, cached_location_id, max_batch_size,
                   given_adjustments, given_batch_size, pending_batches>>

InitRace ==
    /\ odoo \in RunLists
    /\ given_adjustments = <<>>
    /\ file \in InitFiles
    /\ shop \in AllShops
    /\ max_batch_size \in 1..MaxBatch
    /\ backups = <<>>
    /\ cached_location_id = FALSE
    /\ told = ToldBy(file)
    /\ out = NoOut
    /\ last = [op |-> "none", kind |-> "none", src |-> <<>>, updated |-> FALSE]
    /\ calls = <<>>
    /\ runs = 0
    /\ given_batch_size = 0
    /\ pending_batches = <<>>
    /\ backups_made = 0
    /\ loop_run = "optimized"
    /\ queued = 0
    /\ pool_runs = 1
    /\ run_state = NoneResolved
    /\ quants = <<>>
    /\ query = NoQuery

NextRace == \E r \in RunIds : RunResolves(r) \/ RunDispatches(r)

SpecRace == InitRace /\ [][NextRace]_vars

\* ------------------------------------------------------------ the client's counters
\* One ShopifyService over several calls: query.attempts is total_api_calls,
\* query.total_retries is total_retries, runs counts the top-level _run_query
\* calls; of a finished call the counters, the sleeps and the outcome are kept.
MaxQueries == 4

\* a top-level _run_query on the service as it stands
RunQueryAgain ==
    /\ runs < MaxQueries
    /\ \E rs \in [1..(MAX_RETRIES + 1) -> Responses] :
          query' = [run_query(rs, 0, [query EXCEPT !.responses = <<>>, !.sleeps = <<>>,
                                                   !.result = "none"])
                       EXCEPT !.responses = <<>>]
    /\ runs' = runs + 1
    /\ UNCHANGED <<frontVars, odoo, file, backups, shop, cached_location_id,
                   max_batch_size, told, out, last, calls, given_adjustments,
                   given_batch_size, pending_batches, backups_made, quants>>

\* get_stats reads the counters
GetStats ==
    /\ out.op # "get_stats"
    /\ out' = Out("get_stats", "stats", "", FALSE, NoChanges, <<>>, NoSummary, NoLoad)
    /\ last' = [op |-> out.op, kind |-> out.kind, src |-> out.src,
                updated |-> out.summary.snapshot_updated]
    /\ UNCHANGED <<frontVars, clientVars, odoo, file, backups, shop, cached_location_id,
                   max_batch_size, told, calls, runs, given_adjustments,
                   given_batch_size, pending_batches, backups_made>>

NextCounters == RunQueryAgain \/ GetStats

SpecCounters == InitQuery /\ [][NextCounters]_vars

\* ------------------------------------------------------------ claims
\* the quantity the fetch gives SKU s: that of its last record
LastQuantity(list, s) ==
    list[CHOOSE i \in 1..Len(list) :
            list[i].sku = s /\ \A j \in (i + 1)..Len(list) : list[j].sku # s].quantity

\* the SKUs of the fetch the snapshot holds at the same integer quantity
Matching(list, prods) ==
    {s \in Keys(list) : s \in Keys(prods)
                        /\ ToInt(LastQuantity(list, s)) = Get(prods, s).quantity}

Optimized == out.op = "optimized" /\ out.kind = "summary"
Batched == out.op \in {"optimized", "bulk"} /\ out.kind = "summary"

\* C1: an optimized run whose fetch is non-empty and whose detection reports
\* total_changes = 0 makes no downstream exchange at all, leaves the snapshot
\* file, its backups and the downstream quantities as they were, and returns
\* total_batches = 0, successful = failed = skipped = 0, unchanged = the number
\* of matching SKUs, snapshot_updated = false.
C1_NoopShortCircuit ==
    [][(/\ runs' = runs + 1
        /\ out'.op = "optimized" /\ out'.kind = "summary"
        /\ odoo # <<>> /\ out'.detected
        /\ out'.changes.total_changes = 0)
       => (/\ calls' = <<>>
           /\ file' = file /\ backups' = backups /\ shop' = shop
           /\ out'.summary.total_batches = 0
           /\ out'.summary.successful = 0
           /\ out'.summary.failed = 0
           /\ out'.summary.skipped = 0
           /\ out'.summary.results = <<>>
           /\ out'.summary.unchanged = Cardinality(Matching(odoo, file.products))
           /\ out'.summary.snapshot_updated = FALSE)]_vars

C1_Witness ==
    /\ Optimized /\ out.detected
    /\ out.changes.total_changes = 0
    /\ out.summary.unchanged = 2
    /\ calls = <<>>

FailedSkus(results) == {results[i].sku : i \in {j \in 1..Len(results) : ~results[j].success}}

\* C3 as claimed: the snapshot an optimized run has written holds no SKU the
\* run skipped or whose batch failed at the quantity the source gave it.
C3_Claim ==
    (Optimized /\ out.summary.snapshot_updated)
    => \A s \in FailedSkus(out.summary.results) :
          ~(/\ s \in Keys(load_snapshot(file).snapshot.products)
            /\ Get(load_snapshot(file).snapshot.products, s).quantity
                  = ToInt(LastQuantity(out.src, s)))

\* the SKUs of a list of SKUs
Range(seq) == {seq[i] : i \in 1..Len(seq)}

Compared == out.kind = "compared"

\* C4: with a snapshot present, the SKUs of the fetch fall each into exactly
\* one of new (absent from the snapshot), modified (present, int(quantity)
\* differs) and unchanged (present, equal), and deleted_skus is the set of
\* snapshot SKUs absent from the fetch.
C4_Classification ==
    (Compared /\ out.load.snapshot.present)
    => LET ch == out.changes
           held == out.load.snapshot.products
       IN /\ Keys(ch.new_products) = {s \in Keys(odoo) : s \notin Keys(held)}
          /\ Keys(ch.modified_products) =
                {s \in Keys(odoo) : /\ s \in Keys(held)
                                    /\ ToInt(LastQuantity(odoo, s)) # Get(held, s).quantity}
          /\ ch.unchanged_products = Cardinality(Matching(odoo, held))
          /\ Len(ch.new_products) + Len(ch.modified_products) + ch.unchanged_products
                = Cardinality(Keys(odoo))
          /\ Range(ch.deleted_skus) = Keys(held) \ Keys(odoo)
          /\ Len(ch.deleted_skus) = Cardinality(Keys(held) \ Keys(odoo))

C4_Witness ==
    /\ Compared /\ out.load.snapshot.present
    /\ Len(odoo) = 2 /\ Cardinality(Keys(odoo)) = 1
    /\ odoo[1].quantity # odoo[2].quantity
    /\ Len(out.changes.modified_products) = 1
    /\ Len(out.changes.deleted_skus) = 1

\* C5: with the snapshot absent, every record of the fetch is new, nothing is
\* deleted or unchanged, and total_changes is the number of records.
C5_FirstSync ==
    (Compared /\ ~out.load.snapshot.present)
    => /\ out.changes.new_products = odoo
       /\ out.changes.modified_products = <<>>
       /\ out.changes.deleted_skus = <<>>
       /\ out.changes.unchanged_products = 0
       /\ out.changes.total_changes = Len(odoo)

C5_Witness ==
    /\ Compared /\ ~out.load.snapshot.present
    /\ file.kind = "truncated"
    /\ Len(odoo) = 2 /\ Cardinality(Keys(odoo)) = 1
    /\ out.changes.total_changes = 2

\* no SKU twice in a list of records
DistinctSkus(list) == Cardinality(Keys(list)) = Len(list)

\* C6 as claimed: for any fetch and any snapshot, present or absent, new,
\* modified and deleted are pairwise disjoint, hold no SKU twice, add up to
\* total_changes, and with unchanged add up to the number of distinct SKUs of
\* the fetch and the snapshot together.
C6_Claim ==
    Compared
    => LET ch == out.changes
           new == Keys(ch.new_products)
           modified == Keys(ch.modified_products)
           deleted == Range(ch.deleted_skus)
       IN /\ new \cap modified = {} /\ new \cap deleted = {} /\ modified \cap deleted = {}
          /\ DistinctSkus(ch.new_products) /\ DistinctSkus(ch.modified_products)
          /\ Cardinality(deleted) = Len(ch.deleted_skus)
          /\ ch.total_changes
                = Len(ch.new_products) + Len(ch.modified_products) + Len(ch.deleted_skus)
          /\ ch.total_changes + ch.unchanged_products
                = Cardinality(Keys(odoo) \cup Keys(out.load.snapshot.products))

\* C7 as claimed: load_snapshot returns, a snapshot or absent, whatever the
\* file is, and after absent the detection gives every record as new.
C7_Claim ==
    /\ out.kind = "loaded" => out.load.kind = "returned"
    /\ (Compared /\ ~out.load.snapshot.present) => out.changes.new_products = odoo

IsLookup(c) == c.op = "lookup"
IsFailedLookup(c) == c.op = "lookup" /\ c.res # "ok"
IsResolved(c) == c.op = "lookup" /\ c.res = "ok"
IsBulk(c) == c.op = "bulk"
SkusOf(list) == [i \in 1..Len(list) |-> list[i].sku]

\* the items of the bulk calls that ended as one of ends, in order
RECURSIVE BulkItems(_, _)
BulkItems(cs, ends) ==
    IF cs = <<>> THEN <<>>
    ELSE IF cs[1].op = "bulk" /\ cs[1].res \in ends
    THEN cs[1].items \o BulkItems(Tail(cs), ends)
    ELSE BulkItems(Tail(cs), ends)

\* C8: a batched run that returns has looked up every record it had to
\* synchronise, in order, whatever lookups failed; each failed lookup gave one
\* failed result and one more skipped; and the resolved SKUs, all of them,
\* went out in the batches.
C8_ResolutionFailureContinues ==
    (Batched /\ calls # <<>>)
    => LET lookups == SelectSeq(calls, IsLookup)
           failed == SelectSeq(calls, IsFailedLookup)
           resolved == SelectSeq(calls, IsResolved)
       IN /\ SkusOf(lookups) = SkusOf(out.products_to_sync)
          /\ out.summary.skipped = Len(failed)
          /\ Len(out.summary.results) >= Len(failed)
          /\ \A i \in 1..Len(failed) : out.summary.results[i] = Failure(failed[i].sku)
          /\ SkusOf(BulkItems(calls, {"ok", "error", "nocall"})) = SkusOf(resolved)

C8_Witness ==
    /\ Batched
    /\ Len(SelectSeq(calls, IsLookup)) = 2
    /\ SelectSeq(calls, IsLookup)[1].res = "error"
    /\ out.summary.skipped = 1
    /\ out.summary.results[1] = Failure("A")
    /\ Len(BulkItems(calls, {"ok"})) = 1
    /\ out.summary.successful = 1

\* C9 as claimed: in a batched run that dispatched batches, every item of a
\* batch whose bulk call failed has a failed result, failed is the number of
\* items of the failed batches, and every batch was dispatched.
C9_Claim ==
    (Batched /\ out.summary.total_batches > 0)
    => LET lost == BulkItems(calls, {"error"})
           unsuccessful(r) == ~r.success
       IN /\ Len(SelectSeq(calls, IsBulk)) = out.summary.total_batches
          /\ Len(SelectSeq(out.summary.results, unsuccessful))
                = out.summary.skipped + Len(lost)
          /\ out.summary.failed = Len(lost)

\* C10 as claimed: at the end of a run, in any mode, every SKU with a
\* successful result stands downstream at the integer quantity of a record
\* the run was given for it.
C10_Claim ==
    (out.kind = "summary")
    => \A i \in 1..Len(out.summary.results) :
          out.summary.results[i].success
          => \E j \in 1..Len(out.products_to_sync) :
                /\ out.products_to_sync[j].sku = out.summary.results[i].sku
                /\ shop[out.summary.results[i].sku].qty
                      = ToInt(out.products_to_sync[j].quantity)

\* C11: in every mode no adjustment of delta 0 goes downstream: the adjust
\* mutation of the per-item mode is sent only for a non-zero delta, a bulk
\* mutation carries exactly the non-zero items of its batch, and a batch of
\* zero deltas makes no call at all.
C11_ZeroDeltaNeverSent ==
    \A i \in 1..Len(calls) :
        LET c == calls[i]
            moves(a) == a.available_delta > 0 \/ a.available_delta < 0
        IN /\ \A j \in 1..Len(c.sent) : moves(c.sent[j])
           /\ (c.op = "bulk" /\ c.res # "rejected") => c.sent = SelectSeq(c.items, moves)
           /\ (c.op = "bulk" /\ SelectSeq(c.items, moves) = <<>>) => c.res = "nocall"
           /\ c.res = "nocall" => c.sent = <<>>

C11_Witness ==
    /\ Batched
    /\ \E i \in 1..Len(calls) :
          /\ calls[i].op = "bulk" /\ calls[i].res = "ok"
          /\ Len(calls[i].items) = 2 /\ Len(calls[i].sent) = 1
    /\ \E i \in 1..Len(out.summary.results) :
          out.summary.results[i].success /\ out.summary.results[i].delta = 0

RECURSIVE Flatten(_)
Flatten(groups) == IF groups = <<>> THEN <<>> ELSE Head(groups) \o Flatten(Tail(groups))

\* C12: for any list and any batch size M >= 1, every batch create_batches
\* returns has 1 to M items, only the last may have fewer than M, and the
\* batches joined in order are the list it was given.
C12_BatchesPartition ==
    (out.op = "create_batches")
    => /\ \A k \in 1..Len(pending_batches) :
             /\ Len(pending_batches[k]) >= 1
             /\ Len(pending_batches[k]) <= given_batch_size
             /\ k < Len(pending_batches) => Len(pending_batches[k]) = given_batch_size
       /\ Flatten(pending_batches) = given_adjustments

C12_Witness ==
    /\ out.op = "create_batches"
    /\ given_batch_size = 2
    /\ Len(given_adjustments) = 3
    /\ Len(pending_batches) = 2
    /\ Len(pending_batches[2]) = 1

\* C13: a list longer than MAX_BATCH_SIZE never goes downstream: the bulk call
\* it is given to is rejected with an error before anything is sent and no
\* part of it is sent, whatever batch_size create_batches was given; nothing
\* sent is ever longer than MAX_BATCH_SIZE.
C13_OversizeRejected ==
    /\ \A i \in 1..Len(calls) :
          /\ Len(calls[i].sent) <= max_batch_size
          /\ (calls[i].op = "bulk" /\ Len(calls[i].items) > max_batch_size)
                => (calls[i].res = "rejected" /\ calls[i].sent = <<>>)
    /\ (/\ out.op = "bulk_adjust_inventory"
        /\ Len(calls[Len(calls)].items) > max_batch_size)
          => (out.kind = "raised" /\ out.exc = "ValueError")

C13_Witness ==
    /\ out.op = "bulk_adjust_inventory" /\ out.kind = "raised"
    /\ given_batch_size > max_batch_size
    /\ Len(calls) = 1 /\ calls[1].res = "rejected"
    /\ Len(calls[1].items) = 3
    /\ \A j \in 1..3 : calls[1].items[j].available_delta # 0
    /\ shop = [s \in SKUS |-> Variant(TRUE, 0)]

\* C14: a run of any mode that meets a failing source fetch raises the
\* connection error: it returns no summary, makes no downstream exchange and
\* leaves the snapshot file, its backups and the downstream quantities alone.
C14_FetchFailureIsFatal ==
    [][(runs' = runs + 1 /\ out'.op \in {"single", "bulk", "optimized"}
        /\ out'.exc = "OdooConnectionError")
       => (/\ out'.kind = "raised"
           /\ out'.summary = NoSummary
           /\ calls' = <<>>
           /\ file' = file /\ backups' = backups
           /\ shop' = shop)]_vars

C14_Witness ==
    /\ out.op = "optimized" /\ out.kind = "raised" /\ out.exc = "OdooConnectionError"
    /\ file.kind = "object" /\ file.products # <<>>
    /\ Len(odoo) = 2
    /\ calls = <<>>

\* C15 as claimed: in every mode a run that could not resolve the downstream
\* location raises, returns no summary, and makes no lookup or adjust call.
C15_Claim ==
    (\E i \in 1..Len(calls) : calls[i] = LocationCall("error"))
    => /\ out.kind = "raised"
       /\ \A i \in 1..Len(calls) : calls[i].op = "location"

\* C16 as claimed: an optimized run raises only for a failed source fetch or
\* an unresolved location, never for the snapshot, read or written; and when
\* it reports snapshot_updated the file holds the snapshot of its source.
C16_Claim ==
    /\ (out.op = "optimized" /\ out.kind = "raised")
          => out.exc \in {"OdooConnectionError", "ShopifyGraphQLError"}
    /\ (Optimized /\ out.summary.snapshot_updated)
          => file = ValidFile(snapshot_products(out.src), Len(out.src))

\* C17 as claimed: save_snapshot returns false whenever one of its steps
\* fails, and when it returns false the next load_snapshot gives what it gave
\* before the call.
C17_Claim ==
    [][(out'.op = "save_snapshot" /\ runs' = runs + 1)
       => (/\ out'.exc # "" => out'.kind = "false"
           /\ out'.kind = "false" => load_snapshot(file') = load_snapshot(file))]_vars

\* the last n of a sequence
LastN(seq, n) == IF Len(seq) > n THEN SubSeq(seq, Len(seq) - n + 1, Len(seq)) ELSE seq

C19_Claim ==
    /\ [][(/\ out'.op = "save_snapshot" /\ runs' = runs + 1
           /\ file.kind # "missing" /\ file' # file)
          => (backups' # <<>> /\ backups'[Len(backups')] = file)]_vars
    /\ [](file.kind = "truncated" => load_snapshot(file) = Returned(None))

\* C20 as claimed: a reset that removes the snapshot file has put a copy of it
\* among the backups first; after it returned true the snapshot loads as
\* absent and every record list is detected as all new; without a file it
\* returns true and changes nothing; when the unlink fails it returns false.
C20_Claim ==
    [][(out'.op = "reset_snapshot" /\ runs' = runs + 1)
       => (/\ (file.kind # "missing" /\ file'.kind = "missing")
                 => (backups' # <<>> /\ backups'[Len(backups')] = file)
           /\ out'.kind = "true"
                 => /\ load_snapshot(file') = Returned(None)
                    /\ \A l \in AllLists :
                          compare_with_current(l, load_snapshot(file').snapshot).new_products = l
           /\ file.kind = "missing"
                 => (out'.kind = "true" /\ file' = file /\ backups' = backups)
           /\ out'.exc = "unlink" => out'.kind = "false")]_vars

Succeeded(r) == r.success
Failed(r) == ~r.success

\* C21 as claimed: in every summary a batched mode returns, successful is the
\* number of results with success = true, and failed + skipped the number of
\* results with success = false.
C21_Claim ==
    Batched
    => /\ out.summary.successful = Len(SelectSeq(out.summary.results, Succeeded))
       /\ out.summary.failed + out.summary.skipped
              = Len(SelectSeq(out.summary.results, Failed))

Previewed == out.op \in {"preview", "preview_cli"}

\* C22: a preview, of the API or of the CLI, makes no downstream exchange (no
\* location query, no lookup, no adjustment) and leaves the snapshot file, its
\* backups, the downstream quantities and the location cache as they were,
\* whatever the source and the snapshot file hold.
C22_PreviewReadOnly ==
    [][Previewed' => /\ calls' = <<>>
                     /\ file' = file
                     /\ backups' = backups
                     /\ backups_made' = backups_made
                     /\ shop' = shop
                     /\ cached_location_id' = cached_location_id]_vars

C22_Witness ==
    /\ out.op = "preview"
    /\ out.kind = "preview"
    /\ out.changes.total_changes > 0
    /\ out.summary.total_batches > 0
    /\ file.kind = "object"
    /\ backups # <<>>
    /\ ~cached_location_id

LocationFailed(cs) == \E i \in 1..Len(cs) : cs[i].op = "location" /\ cs[i].res = "error"

\* C23: the per-item and the bulk mode detect no changes. A run of either
\* leaves the snapshot file and its backups as they were and never ends in an
\* error of reading the snapshot, whatever the file holds; and a run that
\* returns a summary has taken every fetched record: one result per record,
\* and one lookup per record, in fetch order, unless the location query failed
\* (per-item mode: then every record fails unresolved). In the bulk mode every
\* resolved record goes into a bulk call.
C23_NoChangeDetection ==
    [][out'.op \in {"bulk", "single"}
       => /\ file' = file
          /\ backups' = backups
          /\ backups_made' = backups_made
          /\ ~out'.detected
          /\ out'.exc \in {"", "OdooConnectionError", "ShopifyGraphQLError"}
          /\ out'.kind = "summary"
             => /\ out'.products_to_sync = odoo
                /\ out'.summary.total_products = Len(odoo)
                /\ Len(out'.summary.results) = Len(odoo)
                /\ \A s \in SKUS :
                      Len(SelectSeq(out'.summary.results, LAMBDA r : r.sku = s))
                          = Len(SelectSeq(odoo, LAMBDA q : q.sku = s))
                /\ \/ SkusOf(SelectSeq(calls', IsLookup)) = SkusOf(odoo)
                   \/ out'.op = "single" /\ LocationFailed(calls')
                /\ out'.op = "bulk"
                   => SkusOf(BulkItems(calls', {"ok", "error", "nocall", "rejected"}))
                          = SkusOf(SelectSeq(calls', IsResolved))]_vars

\* a bulk run over a fetch the snapshot holds record for record
C23_Witness ==
    /\ out.op = "bulk"
    /\ out.kind = "summary"
    /\ odoo # <<>>
    /\ file.kind = "object"
    /\ load_snapshot(file).kind = "returned"
    /\ Keys(file.products) = Keys(odoo)
    /\ Matching(odoo, file.products) = Keys(odoo)
    /\ SkusOf(SelectSeq(calls, IsLookup)) = SkusOf(odoo)
    /\ \E i \in 1..Len(calls) : calls[i].op = "bulk" /\ calls[i].res = "ok"

\* C24 as claimed: a forced run that fetched a non-empty inventory and got its
\* downstream location takes every fetched record as new and looks every one
\* of them up, whatever the snapshot held and however the reset before it
\* ended.
C24_Claim ==
    (/\ out.op = "force"
     /\ out.kind \in {"summary", "raised"}
     /\ out.src # <<>>
     /\ out.exc \notin {"OdooConnectionError", "ShopifyGraphQLError"})
    => /\ out.kind = "summary"
       /\ out.changes.new_products = out.src
       /\ out.products_to_sync = out.src
       /\ SkusOf(SelectSeq(calls, IsLookup)) = SkusOf(out.src)

\* the orchestrator runs in flight on the API's SyncService
InFlight == (IF loop_run = "" THEN 0 ELSE 1) + pool_runs

\* C25 as claimed: at most one orchestrator run is in flight on the API's
\* SyncService at any time, whatever requests arrive at /sync, /sync/single
\* and /sync/async.
C25_Claim == InFlight <= 1

\* C26: in the worked example, run on the example's snapshot, whenever the
\* fetch succeeds, detection gives new = [C], modified = [B], deleted = [],
\* unchanged = 1. A run that returns
\* a summary has looked up C and B and no other SKU, and has made one bulk
\* call for the SKUs that resolved (none if neither did), each delta being the
\* fetched quantity less the downstream quantity found at the lookup; when B
\* and C both resolve, that one call carries both, B's delta being 7 less B's
\* downstream quantity, whatever the snapshot's 5, and what goes on the wire
\* is the non-zero deltas among them.
C26_WorkedExample ==
    [][(/\ file = ValidFile(ExampleSnapshot, Len(ExampleSnapshot))
        /\ out'.op = "optimized"
        /\ out'.exc # "OdooConnectionError")
       => /\ out'.changes.new_products = <<StockQuant("C", 6)>>
          /\ out'.changes.modified_products = <<StockQuant("B", 14)>>
          /\ out'.changes.deleted_skus = <<>>
          /\ out'.changes.unchanged_products = 1
          /\ out'.kind = "summary"
             => LET lookups == SelectSeq(calls', IsLookup)
                    resolved == SelectSeq(calls', IsResolved)
                    bulk == SelectSeq(calls', IsBulk)
                IN /\ SkusOf(lookups) = <<"C", "B">>
                   /\ resolved = <<>> => bulk = <<>>
                   /\ resolved # <<>>
                      => /\ Len(bulk) = 1
                         /\ SkusOf(bulk[1].items) = SkusOf(resolved)
                         /\ \A i \in 1..Len(bulk[1].items) :
                               LET adj == bulk[1].items[i]
                               IN adj.available_delta
                                      = ToInt(LastQuantity(odoo, adj.sku)) - shop[adj.sku].qty
                         /\ bulk[1].sent = SelectSeq(bulk[1].items, nonzero)
                   /\ Len(resolved) = 2
                      => /\ SkusOf(bulk[1].items) = <<"C", "B">>
                         /\ bulk[1].items[2].available_delta = 7 - shop["B"].qty
                         /\ bulk[1].items[1].available_delta = 3 - shop["C"].qty]_vars

\* B stands downstream at 3, not at the snapshot's 5: one bulk call, C by +3
\* and B by +4
C26_Witness ==
    /\ out.op = "optimized"
    /\ out.kind = "summary"
    /\ Len(SelectSeq(calls, IsBulk)) = 1
    /\ SelectSeq(calls, IsBulk)[1].res = "ok"
    /\ SelectSeq(calls, IsBulk)[1].sent
           = <<Adjustment("C", 3, 3), Adjustment("B", 4, 7)>>
    /\ shop["B"] = Variant(TRUE, 7)
    /\ shop["A"] = Variant(TRUE, 5)
    /\ out.summary.snapshot_updated

HasSku(row) == row.sku # ""

\* C27 as claimed: get_inventory_by_location either raises OdooConnectionError
\* or returns one record for every row whose product has a SKU, in order and
\* with the row's quantity; no failure of a step shortens the list.
C27_Claim ==
    out.op = "fetch"
    => \/ out.kind = "raised" /\ out.exc = "OdooConnectionError"
       \/ out.kind = "returned" /\ odoo = SelectSeq(quants, HasSku)

Ended == query.result \in {"data", "ShopifyGraphQLError", "RateLimitExceeded"}
Triggers == {"http429", "throttled", "http5xx", "network"}

\* C28: a top-level _run_query call, whatever responses it meets and however
\* the retry triggers alternate, ends with data or an exception after at most
\* MAX_RETRIES + 1 = 5 HTTP attempts, one more than the retries it made.
C28_BoundedAttempts ==
    query.result # "none"
    => /\ Ended
       /\ MAX_RETRIES + 1 = 5
       /\ query.attempts \in 1..5
       /\ query.attempts = Len(query.responses)
       /\ query.attempts = query.total_retries + 1

\* five attempts, each retry for another reason
C28_Witness ==
    /\ query.responses = <<"http429", "throttled", "http5xx", "network", "http5xx">>
    /\ query.attempts = 5
    /\ query.result = "ShopifyGraphQLError"

\* C29: every response that was followed by another attempt was a 429, a
\* throttled GraphQL error, a 5xx or a transport exception, and each of these
\* is retried while retries are left; any other 4xx and a GraphQL error
\* without the throttle signal end the call at once with ShopifyGraphQLError:
\* with such a response first, one attempt, no sleep, total_retries as it was.
C29_RetryTriggers ==
    query.result # "none"
    => LET n == Len(query.responses)
           final == query.responses[n]
       IN /\ \A i \in 1..(n - 1) : query.responses[i] \in Triggers
          /\ Len(query.sleeps) = n - 1
          /\ query.total_retries = n - 1
          /\ final \in Triggers => n = MAX_RETRIES + 1
          /\ final \in {"http4xx", "graphql_error"} => query.result = "ShopifyGraphQLError"
          /\ query.responses[1] \in {"http4xx", "graphql_error"}
             => /\ query.attempts = 1
                /\ query.sleeps = <<>>
                /\ query.total_retries = 0
                /\ query.result = "ShopifyGraphQLError"

\* a 404 at the first attempt
C29_Witness ==
    /\ query.responses = <<"http4xx">>
    /\ query.attempts = 1
    /\ query.sleeps = <<>>
    /\ query.total_retries = 0
    /\ query.result = "ShopifyGraphQLError"

RECURSIVE Sum(_)
Sum(seq) == IF seq = <<>> THEN 0 ELSE Head(seq) + Sum(Tail(seq))

\* C30: within one call the sleep before retry k (k = 0..3) is
\* INITIAL_BACKOFF * 2^k seconds, that is 1, 2, 4, 8: each twice the one
\* before, whatever caused the retries, and 15 seconds at most in all.
C30_BackoffDoubles ==
    query.result # "none"
    => /\ Len(query.sleeps) <= 4
       /\ \A k \in 0..(Len(query.sleeps) - 1) :
             query.sleeps[k + 1] = INITIAL_BACKOFF * (2 ^ k)
       /\ query.sleeps = SubSeq(<<1, 2, 4, 8>>, 1, Len(query.sleeps))
       /\ \A k \in 2..Len(query.sleeps) : query.sleeps[k] = 2 * query.sleeps[k - 1]
       /\ Sum(query.sleeps) <= 15

\* four retries, for four reasons, then data
C30_Witness ==
    /\ query.responses = <<"network", "http5xx", "throttled", "http429", "ok">>
    /\ query.sleeps = <<1, 2, 4, 8>>
    /\ Sum(query.sleeps) = 15
    /\ query.result = "data"

\* the place of a downstream exchange in a batched run
Rank(c) == IF c.op = "location" THEN 0 ELSE IF c.op = "lookup" THEN 1 ELSE 2

\* C31: the downstream exchanges of an optimized run come in the order
\* location query (one at most), then every lookup, then the bulk calls, batch
\* by batch in the order the SKUs resolved. A run that ended before or at
\* change detection (failed fetch, empty fetch, failed load, no change) made
\* none. The snapshot file and its backups change only in a run that returned
\* a summary after dispatching every batch, and one backup at most is made.
C31_StepOrder ==
    [][out'.op = "optimized"
       => /\ \A i, j \in 1..Len(calls') : i < j => Rank(calls'[i]) <= Rank(calls'[j])
          /\ Len(SelectSeq(calls', LAMBDA c : c.op = "location")) <= 1
          /\ \A i \in 1..Len(calls') : calls'[i].op \in {"location", "lookup", "bulk"}
          /\ (~out'.detected \/ no_changes(out'.changes)) => calls' = <<>>
          /\ SkusOf(BulkItems(calls', {"ok", "error", "nocall", "rejected"}))
                 = SkusOf(SelectSeq(calls', IsResolved))
          /\ (file' # file \/ backups' # backups \/ backups_made' # backups_made)
             => /\ out'.kind = "summary"
                /\ out'.summary.total_batches > 0
                /\ Len(SelectSeq(calls', IsBulk)) = out'.summary.total_batches
          /\ backups_made' \in {backups_made, backups_made + 1}
          /\ out'.summary.snapshot_updated
             => file' = ValidFile(snapshot_products(odoo), Len(odoo))]_vars

\* a location query, two lookups, two bulk calls, then the snapshot written
\* over an older one
C31_Witness ==
    /\ out.op = "optimized"
    /\ out.summary.snapshot_updated
    /\ Len(calls) = 5
    /\ calls[1].op = "location"
    /\ calls[2].op = "lookup" /\ calls[3].op = "lookup"
    /\ calls[4].op = "bulk" /\ calls[5].op = "bulk"
    /\ backups_made = 1

IsMutation(c) == c.op = "bulk" /\ c.res \in {"ok", "error"}

\* C32 as claimed: in a summary of a batched mode total_batches is the number
\* of bulk-adjust mutations that went downstream, the batches going out one
\* after another in list order.
C32_Claim ==
    Batched
    => /\ out.summary.total_batches = Len(SelectSeq(calls, IsMutation))
       /\ SkusOf(BulkItems(calls, {"ok", "error", "nocall", "rejected"}))
              = SkusOf(SelectSeq(calls, IsResolved))

\* the later fetch compared with the snapshot a successful save wrote
SavedThenCompared == Compared /\ last.op = "save_snapshot" /\ last.updated

\* C33: the snapshot a successful save writes holds, for every SKU of the
\* saved list, the integer part of its (last) quantity; and a later fetch
\* compared with it reports a SKU of both as modified exactly when the integer
\* parts of the two quantities differ, and counts it as unchanged otherwise,
\* never as new.
C33_TruncatedQuantities ==
    SavedThenCompared
    => /\ Keys(file.products) = Keys(last.src)
       /\ \A s \in Keys(last.src) :
             Get(file.products, s).quantity = ToInt(LastQuantity(last.src, s))
       /\ \A s \in Keys(odoo) \cap Keys(last.src) :
             /\ s \in Keys(out.changes.modified_products)
                <=> ToInt(LastQuantity(odoo, s)) # ToInt(LastQuantity(last.src, s))
             /\ s \notin Keys(out.changes.new_products)
       /\ out.changes.unchanged_products
              = Cardinality({s \in Keys(odoo) \cap Keys(last.src) :
                               ToInt(LastQuantity(odoo, s)) = ToInt(LastQuantity(last.src, s))})

\* A saved at 1.5, fetched at 1 (unchanged); B saved at 0.5, fetched at 1
\* (modified)
C33_Witness ==
    /\ SavedThenCompared
    /\ last.src = <<StockQuant("A", 3), StockQuant("B", 1)>>
    /\ odoo = <<StockQuant("A", 2), StockQuant("B", 2)>>
    /\ out.changes.unchanged_products = 1
    /\ Keys(out.changes.modified_products) = {"B"}

\* C34 as claimed: an optimized run whose fetch succeeded on a snapshot that
\* loads, and that got its downstream location, looks up every SKU the
\* snapshot holds and the fetch lacks, and takes it with quantity 0, an empty
\* fetch included.
C34_Claim ==
    [][(/\ out'.op = "optimized"
        /\ load_snapshot(file).kind = "returned"
        /\ load_snapshot(file).snapshot.present
        /\ out'.exc \notin {"OdooConnectionError", "ShopifyGraphQLError"})
       => \A s \in Keys(file.products) \ Keys(odoo) :
             /\ StockQuant(s, 0) \in Range(out'.products_to_sync)
             /\ \E i \in 1..Len(calls') : calls'[i].op = "lookup" /\ calls'[i].sku = s]_vars

NoFailure(cs) == \A i \in 1..Len(cs) : cs[i].res # "error"

\* C35 as claimed: a bulk run in which no downstream exchange fails leaves
\* every SKU at the downstream quantity a per-item run over the same records,
\* from the same downstream state and without failure, would leave it at, a
\* SKU in several records included.
C35_Claim ==
    [][(out'.op = "bulk" /\ out'.kind = "summary" /\ NoFailure(calls'))
       => shop' = sync_products(odoo, {}, Len(odoo)).shop]_vars

\* C36 as claimed: a call whose last attempt, all retries used, still met rate
\* limiting, by a 429 or by a throttled error in the body, raises
\* RateLimitExceeded.
C36_Claim ==
    (/\ query.result # "none"
     /\ query.attempts = MAX_RETRIES + 1
     /\ query.responses[query.attempts] \in {"http429", "throttled"})
    => query.result = "RateLimitExceeded"

\* C37: in every summary of a batched run that got to the resolve loop, results
\* has one entry per submitted record, which in the optimized mode is
\* new + modified + deleted.
C37_OneResultPerRecord ==
    (out.kind = "summary" /\ out.op \in {"bulk", "optimized"}
        /\ out.products_to_sync # <<>>)
    => /\ Len(out.summary.results) = Len(out.products_to_sync)
       /\ \A s \in SKUS :
             Len(SelectSeq(out.summary.results, LAMBDA r : r.sku = s))
                 = Len(SelectSeq(out.products_to_sync, LAMBDA p : p.sku = s))
       /\ out.op = "optimized"
            => Len(out.summary.results)
                 = out.summary.new + out.summary.modified + out.summary.deleted

C37_Witness ==
    /\ out.kind = "summary" /\ out.op = "optimized"
    /\ out.summary.skipped = 1
    /\ out.summary.total_batches >= 1
    /\ out.summary.deleted = 1
    /\ Len(out.summary.results) = 2

AdjFor(r, s) == SelectSeq(run_state[r].prep.adjustments, LAMBDA a : a.sku = s)

\* the quantity the lookup behind an adjustment read
Seen(a) == a.desired - a.available_delta

\* both runs are over, each had one adjustment for s, for one desired quantity
BothProcessed(s) ==
    /\ \A r \in RunIds : run_state[r].at = "done" /\ Len(AdjFor(r, s)) = 1
    /\ AdjFor("loop", s)[1].desired = AdjFor("pool", s)[1].desired

C39_Counters ==
    /\ [](query.attempts = runs + query.total_retries)
    /\ [][/\ query'.total_retries - query.total_retries \in 0..MAX_RETRIES
          /\ (query'.attempts # query.attempts
                \/ query'.total_retries # query.total_retries) => runs' = runs + 1
          /\ out'.op = "get_stats" /\ out.op # "get_stats"
                => /\ query'.attempts = query.attempts
                   /\ query'.total_retries = query.total_retries]_vars

C39_Witness ==
    /\ runs = 2
    /\ query.total_retries = 2 * MAX_RETRIES
    /\ query.attempts = 2 * MAX_RETRIES + 2
    /\ out.op = "get_stats"

\* C40 as claimed: after a save_snapshot that returned True, total_products of
\* the written snapshot is the number of SKU keys of its products mapping, and
\* every SKU of the saved list is a key of it.
C40_Claim ==
    (last.op = "save_snapshot" /\ last.updated)
    => /\ file.total_products = Cardinality(Keys(file.products))
       /\ \A i \in 1..Len(last.src) : last.src[i].sku \in Keys(file.products)

============================================================================
